---- MODULE Spec2Model ----
(***************************************************************************)
(* A model of RenderingEngine:                                             *)
(*   - Framebuffer  (src/Framebuffer.h): colour + depth buffer pair        *)
(*   - Camera       (src/Camera.h): lazily cached view/projection matrices *)
(*   - Renderer3D   (src/Renderer3D.h): the per-triangle drawMesh pipeline *)
(*   - Mesh         (src/Mesh.h): the indexed mesh and its generators      *)
(*   - Renderer     (src/Renderer.h): lines, triangles and circles in 2D   *)
(*   - Color, Mat4  (src/Color.h, src/Mat4.h): blend and the products      *)
(*   - Window, WindowGL, RendererGL and main: startup and the mesh cache   *)
(*                                                                         *)
(* float values are modelled in fixed point: the integer n stands for the  *)
(* real number n / Scale.  The inputs are chosen so that the operations    *)
(* the properties depend on (comparisons, signs, products of small         *)
(* dyadic numbers) are exact in this representation.                       *)
(***************************************************************************)
EXTENDS Integers, Sequences, FiniteSets, TLC

VARIABLES
    \* ---- Framebuffer (src/Framebuffer.h) ----
    pixels,        \* std::vector<Color> pixels, index = y*width + x
    depthBuffer,   \* std::vector<float> depthBuffer
    fbRet,         \* the value returned by the last Framebuffer call
    fbTouched,     \* the buffer indices the last Framebuffer call read or wrote
    submitted,     \* history: per pixel, the <<depth, color>> pairs handed to
                   \* setPixelDepth since the depth buffer was last cleared
    colorOnly,     \* history: per pixel, TRUE when setPixel/clear wrote its
                   \* colour since the depth buffer was last cleared
    \* ---- Camera (src/Camera.h) ----
    position, target, up,                 \* Vec3
    yaw, pitch,                           \* first-person Euler angles (radians)
    fov, aspect, nearPlane, farPlane,     \* projection parameters
    viewMatrix, projectionMatrix,         \* cached matrices
    viewDirty, projectionDirty,           \* their dirty flags
    calls,         \* the number of mutating Camera calls made so far
    \* ---- Renderer3D::drawMesh (src/Renderer3D.h) ----
    mesh, modelMatrix, wireframe,         \* the arguments of drawMesh
    mvp,           \* projection * view * modelMatrix
    triangleIndex, \* the index i of the triangle loop
    pc,            \* where drawMesh stands: "idle", "loop", "clip", "cull",
                   \* "scan", "line" or "done"
    tri,           \* the locals of the loop body: clip, NDC and screen
                   \* vertices, depths, cross and litColor
    scan,          \* the bounding box and loop variables of drawTriangle3D
    line,          \* the variables of drawLine and the edge being drawn
    drawn,         \* history: the pixels and depths the current triangle
                   \* wrote, and the depth buffer before it
    trace,         \* history: one record per finished triangle
    built,         \* how the Mesh under construction was made: the generator
                   \* called, and the number of makeDoubleSided calls
    call2D,        \* the drawLine or drawTriangle call of the 2D Renderer
                   \* in progress: its arguments and loop variables
    visited,       \* history: the pixels that call passed to drawPixel, in order
    divisors,      \* history: the divisors of the float divisions of that call
    \* ---- value types: Color (src/Color.h), Mat4 (src/Mat4.h) ----
    evaluated,     \* the static or const function called on values, with
                   \* its arguments and the value it returned
    \* ---- main (src/main.cpp), Window, WindowGL, RendererGL ----
    app,           \* main: where it stands, the resources acquired and not
                   \* released, the startup steps that failed, the frames
                   \* shown, the exit code, the size of each Mesh
    rgl            \* RendererGL: uploadedMeshes, the GL names in use, and
                   \* history: the uploads, the deleted names, the last draw

fbVars == <<pixels, depthBuffer, fbRet, fbTouched, submitted, colorOnly>>

camVars == <<position, target, up, yaw, pitch, fov, aspect, nearPlane, farPlane,
             viewMatrix, projectionMatrix, viewDirty, projectionDirty, calls>>

drawVars == <<mesh, modelMatrix, wireframe, mvp, triangleIndex, pc, tri, scan, line, drawn, trace>>

meshVars == <<built>>

twoDVars == <<call2D, visited, divisors>>

otherVars == <<evaluated, app, rgl>>

restVars == <<meshVars, twoDVars, otherVars>>

vars == <<fbVars, camVars, drawVars, restVars>>

-----------------------------------------------------------------------------
(* Bounds of the model *)

\* framebuffer size used by the model
Width == 2
Height == 2
\* most depth-tested writes recorded between two depth clears
MaxSubmit == 2
\* most mutating Camera calls in one run
MaxCalls == 2
\* most triangles in a mesh handed to drawMesh
MaxTriangles == 2
\* vertices and indices pushed by hand into a Mesh
MaxVertices == 2
MaxIndices == 4
\* segments and rings given to createSphere
MaxSegments == 3
MaxRings == 3
\* makeDoubleSided calls on one Mesh
MaxDoubled == 1
\* drawLine is called with x in -1 .. MaxLineX and y in -1 .. MaxLineY
MaxLineX == 5
MaxLineY == 2
\* drawTriangle is called with corners on the grid 0 .. MaxGrid
MaxGrid == 2
\* drawCircle and drawFilledCircle are called with a radius in -1 .. MaxRadius
MaxRadius == 4
\* Mesh objects handed to RendererGL, calls made on them, frames shown
MaxMeshes == 2
MaxGLCalls == 3
MaxFrames == 1
-----------------------------------------------------------------------------
(* float arithmetic in fixed point: the integer n stands for n / Scale *)

\* the fixed-point unit
Scale == 4 * 64

\* C++ division of the model's integers: rounds toward zero
TruncDiv(a, b) ==
    IF b = 0 THEN 0
    ELSE LET q == (IF a < 0 THEN 0 - a ELSE a) \div (IF b < 0 THEN 0 - b ELSE b)
         IN  IF (a < 0) = (b < 0) THEN q ELSE 0 - q

\* division to the nearest integer, as the float unit rounds
RoundDiv(a, b) ==
    LET aa == IF a < 0 THEN 0 - a ELSE a
        bb == IF b < 0 THEN 0 - b ELSE b
        q  == (2 * aa + bb) \div (2 * bb)
    IN  IF (a < 0) = (b < 0) THEN q ELSE 0 - q

\* the float product a * b
FMul(a, b) == RoundDiv(a * b, Scale)

\* the float quotient a / b (b # 0)
FDiv(a, b) == RoundDiv(a * Scale, b)

Abs(a) == IF a < 0 THEN 0 - a ELSE a

\* the largest r with r * r <= n, by bisection on lo <= r < hi
RECURSIVE ISqrtIn(_, _, _)
ISqrtIn(n, lo, hi) ==
    IF hi - lo <= 1 THEN lo
    ELSE LET mid == (lo + hi) \div 2
         IN  IF mid * mid <= n THEN ISqrtIn(n, mid, hi) ELSE ISqrtIn(n, lo, mid)

\* std::sqrt of a sum of squares of fixed-point numbers: sqrt(n / Scale^2) * Scale
ISqrt(n) == ISqrtIn(n, 0, 46341)

\* pi, M_PI
Pi == RoundDiv(314159 * Scale, 100000)
TwoPi == 2 * Pi
HalfPi == RoundDiv(Pi, 2)

\* the finer unit the series below are summed in
Fine == 4 * 4

\* sin on [-pi/2, pi/2] by its Taylor series, x and the result in units of
\* 1 / (Scale * Fine)
SinSeries(x) ==
    LET u  == Scale * Fine
        x2 == RoundDiv(x * x, u)
        t3 == RoundDiv(RoundDiv(x * x2, u), 6)
        t5 == RoundDiv(RoundDiv(t3 * x2, u), 20)
        t7 == RoundDiv(RoundDiv(t5 * x2, u), 42)
        t9 == RoundDiv(RoundDiv(t7 * x2, u), 72)
    IN  x - t3 + t5 - t7 + t9

\* an angle brought into (-pi, pi]
RECURSIVE WrapAngle(_)
WrapAngle(a) ==
    IF a > Pi THEN WrapAngle(a - TwoPi)
    ELSE IF a < 0 - Pi THEN WrapAngle(a + TwoPi)
    ELSE a

\* std::sin
Sin(a) ==
    LET w == WrapAngle(a)
        r == IF w > HalfPi THEN Pi - w
             ELSE IF w < 0 - HalfPi THEN 0 - Pi - w
             ELSE w
        v == RoundDiv(SinSeries(r * Fine), Fine)
    IN  IF v > Scale THEN Scale ELSE IF v < 0 - Scale THEN 0 - Scale ELSE v

\* std::cos
Cos(a) == Sin(a + HalfPi)

\* std::tan
Tan(a) == FDiv(Sin(a), Cos(a))

\* the angle in [lo, hi] of [-pi/2, pi/2] whose sine is nearest below s
RECURSIVE AsinIn(_, _, _)
AsinIn(s, lo, hi) ==
    IF hi - lo <= 1 THEN (IF Sin(hi) <= s THEN hi ELSE lo)
    ELSE LET mid == (lo + hi) \div 2
         IN  IF Sin(mid) <= s THEN AsinIn(s, mid, hi) ELSE AsinIn(s, lo, mid)

\* std::asin for -1 <= s <= 1
Asin(s) ==
    IF s >= Scale THEN HalfPi
    ELSE IF s <= 0 - Scale THEN 0 - HalfPi
    ELSE AsinIn(s, 0 - HalfPi, HalfPi)

\* std::acos for -1 <= c <= 1
Acos(c) == HalfPi - Asin(c)

\* std::atan2(y, x); atan2(0, 0) = 0 and atan2(0, x < 0) = pi
Atan2(y, x) ==
    IF x = 0 /\ y = 0 THEN 0
    ELSE LET r == ISqrt(x * x + y * y)
             a == Asin(RoundDiv(y * Scale, r))
         IN  IF x >= 0 THEN a
             ELSE IF y >= 0 THEN Pi - a
             ELSE 0 - Pi - a

-----------------------------------------------------------------------------
(* Vec3 (src/Vec3.h) and Vec4 (src/Vec4.h) *)

Vec3(x, y, z) == <<x, y, z>>
Vec4(v, w) == <<v[1], v[2], v[3], w>>

VAdd(a, b) == <<a[1] + b[1], a[2] + b[2], a[3] + b[3]>>
VSub(a, b) == <<a[1] - b[1], a[2] - b[2], a[3] - b[3]>>
VScale(a, s) == <<FMul(a[1], s), FMul(a[2], s), FMul(a[3], s)>>
VNeg(a) == <<0 - a[1], 0 - a[2], 0 - a[3]>>

\* float Vec3::dot
Dot3(a, b) == FMul(a[1], b[1]) + FMul(a[2], b[2]) + FMul(a[3], b[3])

\* Vec3 Vec3::cross
Cross3(a, b) ==
    << FMul(a[2], b[3]) - FMul(a[3], b[2]),
       FMul(a[3], b[1]) - FMul(a[1], b[3]),
       FMul(a[1], b[2]) - FMul(a[2], b[1]) >>

\* float Vec3::length
Length3(a) == ISqrt(a[1] * a[1] + a[2] * a[2] + a[3] * a[3])

\* Vec3 Vec3::normalized: the zero vector stays zero
Normalized3(a) ==
    LET len == Length3(a)
    IN  IF len = 0 THEN <<0, 0, 0>>
        ELSE <<FDiv(a[1], len), FDiv(a[2], len), FDiv(a[3], len)>>

\* Vec3 Vec4::toVec3: the perspective divide, skipped when w == 0
ToVec3(c) ==
    IF c[4] = 0 THEN <<c[1], c[2], c[3]>>
    ELSE <<FDiv(c[1], c[4]), FDiv(c[2], c[4]), FDiv(c[3], c[4])>>

-----------------------------------------------------------------------------
(* Mat4 (src/Mat4.h): 16 floats, column-major; m[j*4 + i] is M[j*4 + i + 1] *)

\* Mat4::Mat4(): the identity
Identity4 ==
    << Scale, 0, 0, 0,   0, Scale, 0, 0,   0, 0, Scale, 0,   0, 0, 0, Scale >>

\* element at offset k (0-based, as in the source)
At(M, k) == M[k + 1]

\* Mat4 with the listed offsets replaced
SetAt(M, f) == [k \in 1..16 |-> IF (k - 1) \in DOMAIN f THEN f[k - 1] ELSE M[k]]

\* a product whose inner loop stops at k < 3
MatMulThreeTerms(A, B) ==
    [n \in 1..16 |->
        LET j == (n - 1) \div 4
            i == (n - 1) % 4
        IN  FMul(At(A, 0 * 4 + i), At(B, j * 4 + 0))
          + FMul(At(A, 1 * 4 + i), At(B, j * 4 + 1))
          + FMul(At(A, 2 * 4 + i), At(B, j * 4 + 2))]

\* a product that takes the rows of other and the columns of *this
MatMulSwapped(A, B) ==
    [n \in 1..16 |->
        LET j == (n - 1) \div 4
            i == (n - 1) % 4
        IN  FMul(At(B, 0 * 4 + i), At(A, j * 4 + 0))
          + FMul(At(B, 1 * 4 + i), At(A, j * 4 + 1))
          + FMul(At(B, 2 * 4 + i), At(A, j * 4 + 2))
          + FMul(At(B, 3 * 4 + i), At(A, j * 4 + 3))]

\* Mat4 Mat4::operator*(const Mat4&)
MatMul(A, B) ==
    [n \in 1..16 |->
        LET j == (n - 1) \div 4
            i == (n - 1) % 4
        IN  FMul(At(A, 0 * 4 + i), At(B, j * 4 + 0))
          + FMul(At(A, 1 * 4 + i), At(B, j * 4 + 1))
          + FMul(At(A, 2 * 4 + i), At(B, j * 4 + 2))
          + FMul(At(A, 3 * 4 + i), At(B, j * 4 + 3))]

\* Vec4 Mat4::operator*(const Vec4&)
MatVec(M, v) ==
    << FMul(At(M, 0), v[1]) + FMul(At(M, 4), v[2]) + FMul(At(M, 8), v[3]) + FMul(At(M, 12), v[4]),
       FMul(At(M, 1), v[1]) + FMul(At(M, 5), v[2]) + FMul(At(M, 9), v[3]) + FMul(At(M, 13), v[4]),
       FMul(At(M, 2), v[1]) + FMul(At(M, 6), v[2]) + FMul(At(M, 10), v[3]) + FMul(At(M, 14), v[4]),
       FMul(At(M, 3), v[1]) + FMul(At(M, 7), v[2]) + FMul(At(M, 11), v[3]) + FMul(At(M, 15), v[4]) >>

\* Vec3 Mat4::transformDirection: w = 0, no perspective divide
TransformDirection(M, v) ==
    LET r == MatVec(M, Vec4(v, 0)) IN <<r[1], r[2], r[3]>>

\* Vec3 Mat4::transformPoint: w = 1, then the perspective divide
TransformPoint(M, v) == ToVec3(MatVec(M, Vec4(v, Scale)))

\* Mat4 Mat4::translate(const Vec3& t)
Translate(t) == SetAt(Identity4, (12 :> t[1]) @@ (13 :> t[2]) @@ (14 :> t[3]))

\* Mat4 from 16 numbers given in halves, in column-major order
Mat4Of(h) == [k \in 1..16 |-> h[k] * (Scale \div 2)]

\* matrices handed to operator*: the identity, two translations, a scaling,
\* a quarter turn about z, a matrix with a perspective row and a full one
Matrices ==
    { Identity4,
      Translate(Vec3(Scale, 2 * Scale, 3 * Scale)),
      Translate(Vec3(0 - (Scale \div 2), 0, Scale)),
      Mat4Of(<< 4, 0, 0, 0,   0, 1, 0, 0,   0, 0, 6, 0,   0, 0, 0, 2 >>),
      Mat4Of(<< 0, 2, 0, 0,   0 - 2, 0, 0, 0,   0, 0, 2, 0,   0, 0, 0, 2 >>),
      Mat4Of(<< 2, 0, 0, 0,   0, 2, 0, 0,   0, 0, 0 - 3, 0 - 2,   0, 0, 0 - 4, 0 >>),
      Mat4Of(<< 1, 2, 3, 4,   5, 6, 7, 8,   0 - 1, 0 - 2, 0 - 3, 0 - 4,   3, 1, 4, 1 >>) }

\* vectors handed to operator*, transformPoint and transformDirection
Vectors3 == { Vec3(Scale, 0, 0), Vec3(Scale \div 2, 0 - Scale, 3 * Scale), Vec3(0, 0, 0) }
Weights4 == { 0, Scale, 2 * Scale }

\* Mat4 Mat4::rotateX
RotateX(a) ==
    SetAt(Identity4, (5 :> Cos(a)) @@ (6 :> Sin(a)) @@ (9 :> 0 - Sin(a)) @@ (10 :> Cos(a)))

\* Mat4 Mat4::rotateY
RotateY(a) ==
    SetAt(Identity4, (0 :> Cos(a)) @@ (2 :> 0 - Sin(a)) @@ (8 :> Sin(a)) @@ (10 :> Cos(a)))

\* Mat4 Mat4::lookAt
LookAt(eye, tgt, upDir) ==
    LET forward  == Normalized3(VSub(tgt, eye))
        right    == Normalized3(Cross3(forward, upDir))
        cameraUp == Cross3(right, forward)
    IN  SetAt(Identity4,
              (0 :> right[1]) @@ (4 :> right[2]) @@ (8 :> right[3]) @@
              (1 :> cameraUp[1]) @@ (5 :> cameraUp[2]) @@ (9 :> cameraUp[3]) @@
              (2 :> 0 - forward[1]) @@ (6 :> 0 - forward[2]) @@ (10 :> 0 - forward[3]) @@
              (12 :> 0 - Dot3(right, eye)) @@ (13 :> 0 - Dot3(cameraUp, eye)) @@
              (14 :> Dot3(forward, eye)))

\* the all-zero matrix perspective starts from (memset)
Zero4 == [k \in 1..16 |-> 0]

\* Mat4 Mat4::perspective
Perspective(fovY, aspectRatio, near, far) ==
    LET tanHalfFov == Tan(RoundDiv(fovY, 2))
    IN  SetAt(Zero4,
              (0 :> FDiv(Scale, FMul(aspectRatio, tanHalfFov))) @@
              (5 :> FDiv(Scale, tanHalfFov)) @@
              (10 :> 0 - FDiv(far + near, far - near)) @@
              (11 :> 0 - Scale) @@
              (14 :> 0 - FDiv(FMul(2 * far, near), far - near)))

-----------------------------------------------------------------------------
(* Color (src/Color.h) *)

\* Color(r, g, b, a): four 8-bit channels
Color(r, g, b, a) == <<r, g, b, a>>

BLACK == Color(0, 0, 0, 255)
RED   == Color(255, 0, 0, 255)
GREEN == Color(0, 255, 0, 255)

\* ---- float in Color::blend: the 24-bit significand m and the exponent e
\* of the IEEE single m * 2^e, with 2^23 <= m < 2^24, or m = 0 for zero ----

FloatZero == [m |-> 0, e |-> 0]

RECURSIVE BitLen(_)
\* the number of binary digits of n >= 0
BitLen(n) == IF n = 0 THEN 0 ELSE 1 + BitLen(n \div 2)

\* round to nearest, ties to even: q is the value without its d lowest
\* bits, r those bits, and sticky tells of non-zero bits lower still
RoundEven(q, r, d, sticky) ==
    IF d = 0 THEN q
    ELSE LET half == 2 ^ (d - 1)
         IN  IF r > half \/ (r = half /\ (sticky \/ q % 2 = 1)) THEN q + 1 ELSE q

\* a rounded significand of up to 2^24 as a float
Pack(mant, e) ==
    IF mant = 2 ^ 24 THEN [m |-> 2 ^ 23, e |-> e + 1] ELSE [m |-> mant, e |-> e]

\* the float nearest to n * 2^e (plus lower non-zero bits when sticky)
ToFloat(n, e, sticky) ==
    IF n = 0 THEN FloatZero
    ELSE LET bl == BitLen(n)
         IN  IF bl <= 24
             THEN [m |-> n * 2 ^ (24 - bl), e |-> e - (24 - bl)]
             ELSE Pack(RoundEven(n \div 2 ^ (bl - 24), n % 2 ^ (bl - 24), bl - 24, sticky),
                       e + (bl - 24))

RECURSIVE LongDivide(_, _, _, _)
\* the binary digits of rem / den appended to q until q has 26 of them
LongDivide(q, rem, den, steps) ==
    IF BitLen(q) >= 26 THEN [q |-> q, rem |-> rem, steps |-> steps]
    ELSE LongDivide(2 * q + (IF 2 * rem >= den THEN 1 ELSE 0),
                    IF 2 * rem >= den THEN 2 * rem - den ELSE 2 * rem,
                    den, steps + 1)

\* fg.a / 255.0f for the integer a in 0 .. 255
DivideBy255(a) ==
    IF a = 0 THEN FloatZero
    ELSE LET d == LongDivide(a \div 255, a % 255, 255, 0)
         IN  ToFloat(d.q, 0 - d.steps, d.rem # 0)

\* 1.0f - x for a float x in [0, 1]
OneMinus(x) ==
    IF x.m = 0 THEN [m |-> 2 ^ 23, e |-> 0 - 23]
    ELSE IF x.e >= 0 - 24
    THEN ToFloat(2 ^ (0 - x.e) - x.m, x.e, FALSE)
    ELSE LET s == (0 - 24) - x.e
         IN  ToFloat(2 ^ 24 - RoundEven(x.m \div 2 ^ s, x.m % 2 ^ s, s, FALSE),
                     0 - 24, FALSE)

\* k * x for the channel k in 0 .. 255, converted to float, and a float x;
\* the product of up to 32 bits is kept in two parts, H * 4096 + L
TimesChannel(k, x) ==
    IF k = 0 \/ x.m = 0 THEN FloatZero
    ELSE LET hi == x.m \div 4096
             lo == x.m % 4096
             H  == k * hi + (k * lo) \div 4096
             L  == (k * lo) % 4096
             d  == BitLen(H) - 12
         IN  Pack(RoundEven(H * 2 ^ (12 - d) + L \div 2 ^ d, L % 2 ^ d, d, FALSE),
                  x.e + d)

\* x + y for floats x, y >= 0; the smaller one is aligned to six bits below
\* the larger one and what falls off is remembered as sticky
FloatAdd(x, y) ==
    IF x.m = 0 THEN y
    ELSE IF y.m = 0 THEN x
    ELSE LET big   == IF x.e >= y.e THEN x ELSE y
             small == IF x.e >= y.e THEN y ELSE x
             d     == big.e - small.e
         IN  IF d <= 6
             THEN ToFloat(big.m * 2 ^ d + small.m, small.e, FALSE)
             ELSE IF d - 6 >= 24
             THEN ToFloat(big.m * 64, big.e - 6, TRUE)
             ELSE ToFloat(big.m * 64 + small.m \div 2 ^ (d - 6), big.e - 6,
                          small.m % 2 ^ (d - 6) # 0)

\* static_cast<uint8_t>(x) for a float 0 <= x < 256
ToUint8(x) ==
    IF x.m = 0 THEN 0
    ELSE IF x.e >= 0 THEN x.m * 2 ^ x.e
    ELSE IF 0 - x.e >= 24 THEN 0
    ELSE x.m \div 2 ^ (0 - x.e)

\* one channel of blend: static_cast<uint8_t>(fg.r * alpha + bg.r * invAlpha)
BlendChannel(f, b, a) ==
    LET alpha    == DivideBy255(a)
        invAlpha == OneMinus(alpha)
    IN  ToUint8(FloatAdd(TimesChannel(f, alpha), TimesChannel(b, invAlpha)))

\* static Color blend(const Color& fg, const Color& bg)
Blend(fg, bg) ==
    Color(BlendChannel(fg[1], bg[1], fg[4]), BlendChannel(fg[2], bg[2], fg[4]),
          BlendChannel(fg[3], bg[3], fg[4]), 255)

\* the colours blend is called with
Foregrounds ==
    { Color(r, g, 0, a) : r \in {0, 3, 100, 255}, g \in {0, 3, 255}, a \in {0, 1, 65, 128, 255} }
Backgrounds ==
    { Color(r, g, 0, a) : r \in {0, 3, 255}, g \in {0, 3}, a \in {0, 255} }

\* colours handed to setPixel
WriteColors == {RED}
\* colours handed to clear / clearAll (BLACK is the default argument)
FillColors == {BLACK, RED}

-----------------------------------------------------------------------------
(* Framebuffer (src/Framebuffer.h) *)

\* std::numeric_limits<float>::infinity(): larger than every finite depth
PosInf == 1000000000

\* finite depths and +infinity handed to the depth operations
Depths == {1, 2, PosInf}

\* <<depth, color>> pairs handed to setPixelDepth: a far and a near write,
\* two writes of equal depth and different colour, and a write at +infinity
Submissions == {<<2, RED>>, <<1, GREEN>>, <<1, RED>>, <<PosInf, GREEN>>}

\* the valid indices of both buffers: 0 .. width*height - 1
BufferIndices == 0 .. (Width * Height - 1)

\* a bounds check that lets x = width through
OutOfBoundsNoRight(x, y) == x < 0 \/ y < 0 \/ y >= Height

\* the bounds check every pixel operation starts with
OutOfBounds(x, y) == x < 0 \/ x >= Width \/ y < 0 \/ y >= Height

\* row-major index
PixelIndex(x, y) == y * Width + x

\* coordinates handed to the pixel operations: two pixels inside the
\* buffer and one point beyond each of its four edges
Probes ==
    { <<0, Height - 1>>, <<Width - 1, 0>>,
      <<0 - 1, 0>>, <<Width, 0>>, <<0, 0 - 1>>, <<Width - 1, Height>> }

\* what a Framebuffer call returned: nothing, a bool, a Color or a float
RetVoid == [kind |-> "void", flag |-> FALSE, color |-> <<0, 0, 0, 0>>, depth |-> 0]
RetBool(b) == [kind |-> "bool", flag |-> b, color |-> <<0, 0, 0, 0>>, depth |-> 0]
RetColor(c) == [kind |-> "Color", flag |-> FALSE, color |-> c, depth |-> 0]
RetFloat(d) == [kind |-> "float", flag |-> FALSE, color |-> <<0, 0, 0, 0>>, depth |-> d]

FbInit ==
    /\ pixels = [i \in BufferIndices |-> BLACK]
    /\ depthBuffer = [i \in BufferIndices |-> PosInf]
    /\ fbRet = RetVoid
    /\ fbTouched = {}
    /\ submitted = [i \in BufferIndices |-> <<>>]
    /\ colorOnly = [i \in BufferIndices |-> FALSE]

\* a Framebuffer call leaves the camera and the renderer alone
OnlyFramebuffer == UNCHANGED <<camVars, drawVars, restVars>>

\* a setPixel that writes only where no depth is stored yet
SetPixelAtTested(x, y, color) ==
    IF OutOfBounds(x, y) \/ depthBuffer[PixelIndex(x, y)] < PosInf
    THEN /\ fbTouched' = {}
         /\ UNCHANGED <<pixels, colorOnly>>
    ELSE /\ pixels' = [pixels EXCEPT ![PixelIndex(x, y)] = color]
         /\ fbTouched' = {PixelIndex(x, y)}
         /\ colorOnly' = [colorOnly EXCEPT ![PixelIndex(x, y)] = TRUE]

\* void setPixel(int x, int y, const Color& color)
SetPixelAt(x, y, color) ==
    IF OutOfBounds(x, y)
    THEN /\ fbTouched' = {}
         /\ UNCHANGED <<pixels, colorOnly>>
    ELSE /\ pixels' = [pixels EXCEPT ![PixelIndex(x, y)] = color]
         /\ fbTouched' = {PixelIndex(x, y)}
         /\ colorOnly' = [colorOnly EXCEPT ![PixelIndex(x, y)] = TRUE]

SetPixel(x, y, color) ==
    /\ SetPixelAt(x, y, color)
    /\ fbRet' = RetVoid
    /\ UNCHANGED <<depthBuffer, submitted>>
    /\ OnlyFramebuffer

\* Color getPixel(int x, int y) const
GetPixel(x, y) ==
    /\ IF OutOfBounds(x, y)
       THEN fbRet' = RetColor(BLACK) /\ fbTouched' = {}
       ELSE fbRet' = RetColor(pixels[PixelIndex(x, y)]) /\ fbTouched' = {PixelIndex(x, y)}
    /\ UNCHANGED <<pixels, depthBuffer, submitted, colorOnly>>
    /\ OnlyFramebuffer

\* void clear(const Color& color): std::fill over the colour buffer
ClearedPixels(color) == [i \in DOMAIN pixels |-> color]

\* a depth clear that fills with the near value 0 instead of +infinity
ClearedDepthZero == [i \in DOMAIN depthBuffer |-> 0]

\* void clearDepth(): std::fill over the depth buffer
ClearedDepth == [i \in DOMAIN depthBuffer |-> PosInf]

Clear(color) ==
    /\ pixels' = ClearedPixels(color)
    /\ fbTouched' = DOMAIN pixels
    /\ fbRet' = RetVoid
    /\ colorOnly' = [i \in BufferIndices |-> TRUE]
    /\ UNCHANGED <<depthBuffer, submitted>>
    /\ OnlyFramebuffer

ClearDepth ==
    /\ depthBuffer' = ClearedDepth
    /\ fbTouched' = DOMAIN depthBuffer
    /\ fbRet' = RetVoid
    /\ submitted' = [i \in BufferIndices |-> <<>>]
    /\ colorOnly' = [i \in BufferIndices |-> FALSE]
    /\ UNCHANGED pixels
    /\ OnlyFramebuffer

\* void clearAll(const Color& color): clear(color); clearDepth();
ClearAll(color) ==
    /\ pixels' = ClearedPixels(color)
    /\ depthBuffer' = ClearedDepth
    /\ fbTouched' = DOMAIN pixels \cup DOMAIN depthBuffer
    /\ fbRet' = RetVoid
    /\ submitted' = [i \in BufferIndices |-> <<>>]
    /\ colorOnly' = [i \in BufferIndices |-> FALSE]
    /\ OnlyFramebuffer

\* a depth test that lets ties through
DepthLessOrEqual(depth, stored) == depth <= stored

\* the comparison of the depth test: float operator<
DepthLess(depth, stored) == depth < stored

\* bool depthTest(int x, int y, float depth) const
DepthTest(x, y, depth) ==
    /\ IF OutOfBounds(x, y)
       THEN fbRet' = RetBool(FALSE) /\ fbTouched' = {}
       ELSE /\ fbRet' = RetBool(DepthLess(depth, depthBuffer[PixelIndex(x, y)]))
            /\ fbTouched' = {PixelIndex(x, y)}
    /\ UNCHANGED <<pixels, depthBuffer, submitted, colorOnly>>
    /\ OnlyFramebuffer

\* the number of depth-tested writes recorded for the pixels 0 .. n
RECURSIVE SubmittedCount(_)
SubmittedCount(n) ==
    IF n < 0 THEN 0 ELSE Len(submitted[n]) + SubmittedCount(n - 1)

\* a setPixelDepth that writes the colour of a passing pixel and forgets
\* to store its depth
SetPixelDepthAtColorOnly(x, y, depth, color) ==
    IF OutOfBounds(x, y)
    THEN /\ fbRet' = RetBool(FALSE)
         /\ fbTouched' = {}
         /\ UNCHANGED <<pixels, depthBuffer>>
    ELSE /\ fbTouched' = {PixelIndex(x, y)}
         /\ IF DepthLess(depth, depthBuffer[PixelIndex(x, y)])
            THEN /\ pixels' = [pixels EXCEPT ![PixelIndex(x, y)] = color]
                 /\ fbRet' = RetBool(TRUE)
                 /\ UNCHANGED depthBuffer
            ELSE /\ fbRet' = RetBool(FALSE)
                 /\ UNCHANGED <<pixels, depthBuffer>>

\* bool setPixelDepth(int x, int y, float depth, const Color& color):
\* the effect on the two buffers and the returned flag
SetPixelDepthAt(x, y, depth, color) ==
    IF OutOfBounds(x, y)
    THEN /\ fbRet' = RetBool(FALSE)
         /\ fbTouched' = {}
         /\ UNCHANGED <<pixels, depthBuffer>>
    ELSE /\ fbTouched' = {PixelIndex(x, y)}
         /\ IF DepthLess(depth, depthBuffer[PixelIndex(x, y)])
            THEN /\ pixels' = [pixels EXCEPT ![PixelIndex(x, y)] = color]
                 /\ depthBuffer' = [depthBuffer EXCEPT ![PixelIndex(x, y)] = depth]
                 /\ fbRet' = RetBool(TRUE)
            ELSE /\ fbRet' = RetBool(FALSE)
                 /\ UNCHANGED <<pixels, depthBuffer>>

SetPixelDepth(x, y, depth, color) ==
    /\ SubmittedCount(Width * Height - 1) < MaxSubmit
    /\ SetPixelDepthAt(x, y, depth, color)
    /\ submitted' = IF OutOfBounds(x, y) THEN submitted
                    ELSE [submitted EXCEPT ![PixelIndex(x, y)] =
                              Append(@, <<depth, color>>)]
    /\ UNCHANGED colorOnly
    /\ OnlyFramebuffer

\* float getDepth(int x, int y) const
GetDepth(x, y) ==
    /\ IF OutOfBounds(x, y)
       THEN fbRet' = RetFloat(PosInf) /\ fbTouched' = {}
       ELSE fbRet' = RetFloat(depthBuffer[PixelIndex(x, y)]) /\ fbTouched' = {PixelIndex(x, y)}
    /\ UNCHANGED <<pixels, depthBuffer, submitted, colorOnly>>
    /\ OnlyFramebuffer

FramebufferNext ==
    \/ \E p \in Probes, c \in WriteColors : SetPixel(p[1], p[2], c)
    \/ \E p \in Probes : GetPixel(p[1], p[2])
    \/ \E c \in FillColors : Clear(c)
    \/ ClearDepth
    \/ \E c \in FillColors : ClearAll(c)
    \/ \E p \in Probes, d \in Depths : DepthTest(p[1], p[2], d)
    \/ \E p \in Probes, s \in Submissions :
           SetPixelDepth(p[1], p[2], s[1], s[2])
    \/ \E p \in Probes : GetDepth(p[1], p[2])

-----------------------------------------------------------------------------
(* Camera (src/Camera.h) *)

\* arguments handed to the constructor and the setters
Positions == { Vec3(0, 0, 2 * Scale), Vec3(2 * Scale, Scale, 0) }
Targets == { Vec3(0, 0, 0), Vec3(0, Scale, 0 - Scale) }
Ups == { Vec3(0, Scale, 0), Vec3(Scale, 0, 0) }
FovDegrees == { 60 * Scale, 90 * Scale }
Aspects == { Scale, 2 * Scale }
ClipPlanes == { <<Scale, 3 * Scale>>, <<RoundDiv(Scale, 2), 2 * Scale>> }
\* distances and angles handed to the movement and rotation calls
Distances == { Scale }
Angles == { HalfPi }
\* the angles handed to rotateYaw: the second takes yaw past pi
Turns == Angles \cup { 0 - 3 * HalfPi }

\* fovDegrees * M_PI / 180.0f
Radians(deg) == RoundDiv(FMul(deg, Pi) * Scale, 180 * Scale)

\* Camera::Camera
CameraInit(pos, tgt, u, fovDegrees, asp, near, far) ==
    /\ position = pos
    /\ target = tgt
    /\ up = u
    /\ fov = Radians(fovDegrees)
    /\ aspect = asp
    /\ nearPlane = near
    /\ farPlane = far
    /\ viewDirty = TRUE
    /\ projectionDirty = TRUE
    /\ viewMatrix = Identity4
    /\ projectionMatrix = Identity4
    /\ LET direction == Normalized3(VSub(tgt, pos))
       IN  /\ yaw = Atan2(direction[1], 0 - direction[3])
           /\ pitch = Asin(direction[2])
    /\ calls = 0

\* Vec3 getForward() const
GetForward == Normalized3(VSub(target, position))

\* Vec3 getRight() const
GetRight == Normalized3(Cross3(GetForward, up))

\* a Camera call leaves the framebuffer and the renderer alone
OnlyCamera == UNCHANGED <<fbVars, drawVars, restVars>>

\* every mutating call is counted, up to MaxCalls
Counted == calls < MaxCalls /\ calls' = calls + 1

viewState == <<position, target, up, yaw, pitch, viewMatrix, viewDirty>>
projState == <<fov, aspect, nearPlane, farPlane, projectionMatrix, projectionDirty>>

\* void setPosition(const Vec3& pos)
SetPosition(pos) ==
    /\ Counted
    /\ position' = pos
    /\ viewDirty' = TRUE
    /\ UNCHANGED <<target, up, yaw, pitch, viewMatrix, projState>>
    /\ OnlyCamera

\* a setTarget that forgets to mark the view matrix dirty
SetTargetNoDirty(tgt) ==
    /\ Counted
    /\ target' = tgt
    /\ UNCHANGED <<position, up, yaw, pitch, viewMatrix, viewDirty, projState>>
    /\ OnlyCamera

\* void setTarget(const Vec3& tgt)
SetTarget(tgt) ==
    /\ Counted
    /\ target' = tgt
    /\ viewDirty' = TRUE
    /\ UNCHANGED <<position, up, yaw, pitch, viewMatrix, projState>>
    /\ OnlyCamera

\* void setUp(const Vec3& u)
SetUp(u) ==
    /\ Counted
    /\ up' = u
    /\ viewDirty' = TRUE
    /\ UNCHANGED <<position, target, yaw, pitch, viewMatrix, projState>>
    /\ OnlyCamera

\* a setFOV that marks the view matrix dirty as well
SetFOVBothDirty(fovDegrees) ==
    /\ Counted
    /\ fov' = Radians(fovDegrees)
    /\ projectionDirty' = TRUE
    /\ viewDirty' = TRUE
    /\ UNCHANGED <<aspect, nearPlane, farPlane, projectionMatrix,
                   position, target, up, yaw, pitch, viewMatrix>>
    /\ OnlyCamera

\* void setFOV(float fovDegrees)
SetFOV(fovDegrees) ==
    /\ Counted
    /\ fov' = Radians(fovDegrees)
    /\ projectionDirty' = TRUE
    /\ UNCHANGED <<aspect, nearPlane, farPlane, projectionMatrix, viewState>>
    /\ OnlyCamera

\* void setAspectRatio(float aspectRatio)
SetAspectRatio(aspectRatio) ==
    /\ Counted
    /\ aspect' = aspectRatio
    /\ projectionDirty' = TRUE
    /\ UNCHANGED <<fov, nearPlane, farPlane, projectionMatrix, viewState>>
    /\ OnlyCamera

\* void setClipPlanes(float near, float far)
SetClipPlanes(near, far) ==
    /\ Counted
    /\ nearPlane' = near
    /\ farPlane' = far
    /\ projectionDirty' = TRUE
    /\ UNCHANGED <<fov, aspect, projectionMatrix, viewState>>
    /\ OnlyCamera

\* void moveForward(float distance)
MoveForward(distance) ==
    /\ Counted
    /\ position' = VAdd(position, VScale(GetForward, distance))
    /\ target' = VAdd(target, VScale(GetForward, distance))
    /\ viewDirty' = TRUE
    /\ UNCHANGED <<up, yaw, pitch, viewMatrix, projState>>
    /\ OnlyCamera

\* void moveRight(float distance)
MoveRight(distance) ==
    /\ Counted
    /\ position' = VAdd(position, VScale(GetRight, distance))
    /\ target' = VAdd(target, VScale(GetRight, distance))
    /\ viewDirty' = TRUE
    /\ UNCHANGED <<up, yaw, pitch, viewMatrix, projState>>
    /\ OnlyCamera

\* void moveUp(float distance)
MoveUp(distance) ==
    /\ Counted
    /\ position' = VAdd(position, VScale(up, distance))
    /\ target' = VAdd(target, VScale(up, distance))
    /\ viewDirty' = TRUE
    /\ UNCHANGED <<up, yaw, pitch, viewMatrix, projState>>
    /\ OnlyCamera

Max2(a, b) == IF a > b THEN a ELSE b
Min2(a, b) == IF a < b THEN a ELSE b

\* the position orbitAroundTarget computes
OrbitPosition(yawRadians, pitchRadians) ==
    LET offset == VSub(position, target)
        radius == Length3(offset)
        theta  == Atan2(offset[1], offset[3]) + yawRadians
        \* radius = 0 makes offset.y / radius NaN, which fmin and fmax drop
        phi    == IF radius = 0
                  THEN Pi - RoundDiv(Scale, 10)
                  ELSE Max2(RoundDiv(Scale, 10),
                            Min2(Pi - RoundDiv(Scale, 10),
                                 Acos(FDiv(offset[2], radius)) + pitchRadians))
    IN  VAdd(target,
             Vec3(FMul(FMul(radius, Sin(phi)), Sin(theta)),
                  FMul(radius, Cos(phi)),
                  FMul(FMul(radius, Cos(phi)), Cos(theta))))

\* void orbitAroundTarget(float yawRadians, float pitchRadians)
OrbitAroundTarget(yawRadians, pitchRadians) ==
    /\ Counted
    /\ position' = OrbitPosition(yawRadians, pitchRadians)
    /\ viewDirty' = TRUE
    /\ UNCHANGED <<target, up, yaw, pitch, viewMatrix, projState>>
    /\ OnlyCamera

\* void lookAround(float yawRadians, float pitchRadians)
LookAround(yawRadians, pitchRadians) ==
    /\ Counted
    /\ target' = VAdd(position,
                      TransformDirection(
                          MatMul(RotateY(yawRadians), RotateX(pitchRadians)),
                          GetForward))
    /\ viewDirty' = TRUE
    /\ UNCHANGED <<position, up, yaw, pitch, viewMatrix, projState>>
    /\ OnlyCamera

\* the loops of rotateYaw: while (yaw > M_PI) yaw -= 2 pi; while (yaw < -M_PI) yaw += 2 pi
RECURSIVE WrapYaw(_)
WrapYaw(a) ==
    IF a > Pi THEN WrapYaw(a - TwoPi)
    ELSE IF a < 0 - Pi THEN WrapYaw(a + TwoPi)
    ELSE a

\* the target updateTargetFromOrientation computes for the given angles
TargetFromOrientation(y, p) ==
    VAdd(position,
         Vec3(FMul(Cos(p), Sin(y)), Sin(p), 0 - FMul(Cos(p), Cos(y))))

\* void rotateYaw(float deltaRadians), with updateTargetFromOrientation()
RotateYaw(deltaRadians) ==
    /\ Counted
    /\ yaw' = WrapYaw(yaw + deltaRadians)
    /\ target' = TargetFromOrientation(yaw', pitch)
    /\ viewDirty' = TRUE
    /\ UNCHANGED <<position, up, pitch, viewMatrix, projState>>
    /\ OnlyCamera

\* const float maxPitch = 89.0f * M_PI / 180.0f
MaxPitch == RoundDiv(89 * Pi, 180)

\* void rotatePitch(float deltaRadians), with updateTargetFromOrientation()
RotatePitch(deltaRadians) ==
    /\ Counted
    /\ pitch' = Max2(0 - MaxPitch, Min2(MaxPitch, pitch + deltaRadians))
    /\ target' = TargetFromOrientation(yaw, pitch')
    /\ viewDirty' = TRUE
    /\ UNCHANGED <<position, up, yaw, viewMatrix, projState>>
    /\ OnlyCamera

\* the cache update of getViewMatrix
RefreshView ==
    IF viewDirty
    THEN viewMatrix' = LookAt(position, target, up) /\ viewDirty' = FALSE
    ELSE UNCHANGED <<viewMatrix, viewDirty>>

\* the cache update of getProjectionMatrix
RefreshProjection ==
    IF projectionDirty
    THEN /\ projectionMatrix' = Perspective(fov, aspect, nearPlane, farPlane)
         /\ projectionDirty' = FALSE
    ELSE UNCHANGED <<projectionMatrix, projectionDirty>>

\* const Mat4& getViewMatrix(): returns a reference to viewMatrix
GetViewMatrix ==
    /\ RefreshView
    /\ UNCHANGED <<position, target, up, yaw, pitch, projState, calls>>
    /\ OnlyCamera

\* const Mat4& getProjectionMatrix(): returns a reference to projectionMatrix
GetProjectionMatrix ==
    /\ RefreshProjection
    /\ UNCHANGED <<fov, aspect, nearPlane, farPlane, viewState, calls>>
    /\ OnlyCamera

\* Mat4 getViewProjectionMatrix(): returns getProjectionMatrix() * getViewMatrix()
GetViewProjectionMatrix ==
    /\ RefreshProjection
    /\ RefreshView
    /\ UNCHANGED <<position, target, up, yaw, pitch,
                   fov, aspect, nearPlane, farPlane, calls>>
    /\ OnlyCamera

\* (ndc.x + 1.0f) * 0.5f * width, the int width converted to float
ViewportX(ndcX, w) == FMul(ndcX + Scale, RoundDiv(Scale, 2)) * w

\* (1.0f - ndc.y) * 0.5f * height: Y is flipped
ViewportY(ndcY, h) == FMul(Scale - ndcY, RoundDiv(Scale, 2)) * h

\* the screen point (screenX, screenY, depth) of a world point under the
\* view and projection matrices V and P
ScreenPoint(P, V, worldPos, screenWidth, screenHeight) ==
    LET ndc == ToVec3(MatVec(MatMul(P, V), Vec4(worldPos, Scale)))
    IN  Vec3(ViewportX(ndc[1], screenWidth),
             ViewportY(ndc[2], screenHeight),
             ndc[3])

\* Vec3 worldToScreen(const Vec3& worldPos, int w, int h) const: the value
\* it returns in the current state
WorldToScreen(worldPos, screenWidth, screenHeight) ==
    ScreenPoint(projectionMatrix, viewMatrix, worldPos, screenWidth, screenHeight)

CameraNext ==
    \/ \E pos \in Positions : SetPosition(pos)
    \/ \E tgt \in Targets : SetTarget(tgt)
    \/ \E u \in Ups : SetUp(u)
    \/ \E f \in FovDegrees : SetFOV(f)
    \/ \E a \in Aspects : SetAspectRatio(a)
    \/ \E c \in ClipPlanes : SetClipPlanes(c[1], c[2])
    \/ \E d \in Distances : MoveForward(d)
    \/ \E d \in Distances : MoveRight(d)
    \/ \E d \in Distances : MoveUp(d)
    \/ \E a \in Angles : OrbitAroundTarget(a, 0 - RoundDiv(a, 2))
    \/ \E a \in Angles : LookAround(a, RoundDiv(a, 2))
    \/ \E a \in Turns : RotateYaw(a)
    \/ \E a \in Angles : RotatePitch(a)
    \/ GetViewMatrix
    \/ GetProjectionMatrix
    \/ GetViewProjectionMatrix

-----------------------------------------------------------------------------
(* Vec2 (src/Vec2.h), Vertex and Mesh (src/Mesh.h) *)

Vec2(x, y) == <<x, y>>
V2Sub(a, b) == <<a[1] - b[1], a[2] - b[2]>>

\* float Vec2::cross, in units of 1 / Scale^2: the two products are kept
\* whole, so a cross product below 1 / Scale keeps its sign and its size
Cross2(a, b) == a[1] * b[2] - a[2] * b[1]

WHITE == Color(255, 255, 255, 255)
BLUE  == Color(0, 0, 255, 255)

\* Vertex(pos, norm = (0, 1, 0), col)
Vertex(pos, col) == [position |-> pos, normal |-> Vec3(0, Scale, 0), color |-> col]

\* a Mesh: its vertices and its indices, three per triangle (0-based, as in
\* the source); this one stores the vertices of each triangle in turn
MeshOf(tris) ==
    [vertices |-> [k \in 1 .. 3 * Len(tris) |->
                       tris[((k - 1) \div 3) + 1][((k - 1) % 3) + 1]],
     indices  |-> [k \in 1 .. 3 * Len(tris) |-> k - 1]]

\* a triangle count taken from the vertices instead of the indices
GetTriangleCountOfVertices(m) == Len(m.vertices) \div 3

\* size_t getTriangleCount() const
GetTriangleCount(m) == Len(m.indices) \div 3

\* void getTriangle(size_t triangleIndex, Vertex& v0, Vertex& v1, Vertex& v2) const
GetTriangle(m, t) ==
    LET idx == t * 3
    IN  << m.vertices[m.indices[idx + 1] + 1],
           m.vertices[m.indices[idx + 2] + 1],
           m.vertices[m.indices[idx + 3] + 1] >>

-----------------------------------------------------------------------------
(* The Mesh generators (src/Mesh.h) *)

\* Vertex(pos, norm, col)
VertexOf(pos, norm, col) == [position |-> pos, normal |-> norm, color |-> col]

\* Mesh() = default
EmptyMesh == [vertices |-> <<>>, indices |-> <<>>]

\* float half = size * 0.5f
Half(size) == FMul(size, RoundDiv(Scale, 2))

\* Vec3 corners[8] of the box with the given centre and half extents;
\* corners[k] of the source is element k + 1
Corners(c, hx, hy, hz) ==
    << Vec3(c[1] - hx, c[2] - hy, c[3] - hz), Vec3(c[1] + hx, c[2] - hy, c[3] - hz),
       Vec3(c[1] - hx, c[2] + hy, c[3] - hz), Vec3(c[1] + hx, c[2] + hy, c[3] - hz),
       Vec3(c[1] - hx, c[2] - hy, c[3] + hz), Vec3(c[1] + hx, c[2] - hy, c[3] + hz),
       Vec3(c[1] - hx, c[2] + hy, c[3] + hz), Vec3(c[1] + hx, c[2] + hy, c[3] + hz) >>

\* the six faces in the order they are pushed: front, back, left, right,
\* bottom, top; the corners of each in the order pushed, and its normal
CubeFaces ==
    << [corners |-> <<0, 1, 3, 2>>, normal |-> Vec3(0, 0, 0 - Scale)],
       [corners |-> <<5, 4, 6, 7>>, normal |-> Vec3(0, 0, Scale)],
       [corners |-> <<4, 0, 2, 6>>, normal |-> Vec3(0 - Scale, 0, 0)],
       [corners |-> <<1, 5, 7, 3>>, normal |-> Vec3(Scale, 0, 0)],
       [corners |-> <<4, 5, 1, 0>>, normal |-> Vec3(0, 0 - Scale, 0)],
       [corners |-> <<2, 3, 7, 6>>, normal |-> Vec3(0, Scale, 0)] >>

\* the 24 vertices pushed for a box, 4 per face
BoxVertices(corners, col) ==
    [k \in 1 .. 24 |->
        LET face == CubeFaces[((k - 1) \div 4) + 1]
        IN  VertexOf(corners[face.corners[((k - 1) % 4) + 1] + 1], face.normal, col)]

\* the index loop of a box: for each face i, base + 0, 1, 2 and base + 0, 2, 3
\* with base = first + i * 4
BoxIndices(first) ==
    [k \in 1 .. 36 |->
        first + ((k - 1) \div 6) * 4 + <<0, 1, 2, 0, 2, 3>>[((k - 1) % 6) + 1]]

\* static Mesh createCube(float size, const Color& color)
CreateCube(size, color) ==
    [vertices |-> BoxVertices(Corners(Vec3(0, 0, 0), Half(size), Half(size), Half(size)),
                              color),
     indices  |-> BoxIndices(0)]

\* Vec3 base[4] of the pyramid; base[k] of the source is element k + 1
PyramidBase(half) ==
    << Vec3(0 - half, 0 - half, 0 - half), Vec3(half, 0 - half, 0 - half),
       Vec3(half, 0 - half, half), Vec3(0 - half, 0 - half, half) >>

\* the three vertices pushed for side i of the pyramid
PyramidSide(half, i, color) ==
    LET base   == PyramidBase(half)
        apex   == Vec3(0, half, 0)
        next   == (i + 1) % 4
        edge1  == VSub(base[next + 1], base[i + 1])
        edge2  == VSub(apex, base[i + 1])
        normal == Normalized3(Cross3(edge1, edge2))
    IN  << VertexOf(base[i + 1], normal, color), VertexOf(base[next + 1], normal, color),
           VertexOf(apex, normal, color) >>

\* static Mesh createPyramid(float size, const Color& color)
CreatePyramid(size, color) ==
    LET half == Half(size)
    IN  [vertices |-> [k \in 1 .. 16 |->
                          IF k <= 4
                          THEN VertexOf(PyramidBase(half)[k], Vec3(0, 0 - Scale, 0), color)
                          ELSE PyramidSide(half, (k - 5) \div 3, color)[((k - 5) % 3) + 1]],
         indices  |-> <<0, 1, 2, 0, 2, 3>> \o [k \in 1 .. 12 |-> 4 + (k - 1)]]

\* the one element of a set of one element: used to compute a local of the
\* source once, as a value, before it is used several times
The(S) == CHOOSE v \in S : TRUE

\* the vertex pushed for (ring, seg) of the sphere
SphereVertex(radius, segments, rings, ring, seg, color) ==
    LET phi   == RoundDiv(Pi * ring, rings)
        theta == RoundDiv(TwoPi * seg, segments)
    IN  The({ VertexOf(pos, Normalized3(pos), color) :
                pos \in { Vec3(FMul(ringRadius, Cos(theta)), y, FMul(ringRadius, Sin(theta))) :
                            y \in {FMul(radius, Cos(phi))},
                            ringRadius \in {FMul(radius, Sin(phi))} } })

\* a quad whose lower row is taken one vertex too far
SphereQuadWide(segments, ring, seg) ==
    LET current == ring * (segments + 1) + seg
        next    == current + segments + 2
    IN  << current, next, current + 1, current + 1, next, next + 1 >>

\* the six indices pushed for the quad (ring, seg) of the sphere
SphereQuad(segments, ring, seg) ==
    LET current == ring * (segments + 1) + seg
        next    == current + segments + 1
    IN  << current, next, current + 1, current + 1, next, next + 1 >>

\* a sphere whose rings close on their first vertex: no vertex at seg == segments
CreateSphereNoSeam(radius, segments, rings, color) ==
    [vertices |-> [k \in 1 .. (rings + 1) * segments |->
                      SphereVertex(radius, segments, rings, (k - 1) \div segments,
                                   (k - 1) % segments, color)],
     indices  |-> [k \in 1 .. 6 * rings * segments |->
                      SphereQuad(segments - 1, ((k - 1) \div 6) \div segments,
                                 ((k - 1) \div 6) % segments)[((k - 1) % 6) + 1]]]

\* static Mesh createSphere(float radius, int segments, int rings, const Color& color)
CreateSphere(radius, segments, rings, color) ==
    [vertices |-> [k \in 1 .. (rings + 1) * (segments + 1) |->
                      SphereVertex(radius, segments, rings, (k - 1) \div (segments + 1),
                                   (k - 1) % (segments + 1), color)],
     indices  |-> [k \in 1 .. 6 * rings * segments |->
                      SphereQuad(segments, ((k - 1) \div 6) \div segments,
                                 ((k - 1) \div 6) % segments)[((k - 1) % 6) + 1]]]

\* the six sides of the three planes of the corner in the order pushed:
\* the four positions of each and its normal
CornerSides(half, size) ==
    LET floor == << Vec3(0 - half, 0, 0 - half), Vec3(half, 0, 0 - half),
                    Vec3(half, 0, half), Vec3(0 - half, 0, half) >>
        back  == << Vec3(0 - half, 0, 0), Vec3(half, 0, 0),
                    Vec3(half, size, 0), Vec3(0 - half, size, 0) >>
        left  == << Vec3(0, 0, 0 - half), Vec3(0, 0, half),
                    Vec3(0, size, half), Vec3(0, size, 0 - half) >>
    IN  << [at |-> floor, normal |-> Vec3(0, 0 - Scale, 0)],
           [at |-> floor, normal |-> Vec3(0, Scale, 0)],
           [at |-> back,  normal |-> Vec3(0, 0, Scale)],
           [at |-> back,  normal |-> Vec3(0, 0, 0 - Scale)],
           [at |-> left,  normal |-> Vec3(0 - Scale, 0, 0)],
           [at |-> left,  normal |-> Vec3(Scale, 0, 0)] >>

\* static Mesh createCornerCube(float size, const Color& color)
CreateCornerCube(size, color) ==
    LET sides == CornerSides(Half(size), size)
    IN  [vertices |-> [k \in 1 .. 24 |->
                          VertexOf(sides[((k - 1) \div 4) + 1].at[((k - 1) % 4) + 1],
                                   sides[((k - 1) \div 4) + 1].normal, color)],
         indices  |-> [k \in 1 .. 36 |->
                          8 * ((k - 1) \div 12)
                            + <<0, 1, 2, 0, 2, 3, 4, 6, 5, 4, 7, 6>>[((k - 1) % 12) + 1]]]

\* the vertex pushed for corner i of the ring at t along the diagonal bar
DiagonalVertex(height, width, thickness, t, i, color) ==
    LET half      == RoundDiv(Scale, 2)
        diagStart == Vec3(FMul(0 - width, half) + FMul(thickness, half),
                          FMul(0 - height, half), 0)
        diagEnd   == Vec3(FMul(width, half) - FMul(thickness, half), FMul(height, half), 0)
        perpZ     == Vec3(0, 0, Scale)
        halfThick == FMul(thickness, half)
        xOff      == IF i % 2 = 1 THEN halfThick ELSE 0 - halfThick
        zOff      == IF (i \div 2) % 2 = 1 THEN halfThick ELSE 0 - halfThick
        pos       == VAdd(VScale(diagStart, Scale - t), VScale(diagEnd, t))
    IN  The({ VertexOf(VAdd(pos, off), Normalized3(off), color) :
                off \in { VAdd(VScale(perpX, xOff), VScale(perpZ, zOff)) :
                            perpX \in { Vec3(0 - Sin(angle), Cos(angle), 0) :
                                          angle \in {Atan2(height, width)} } } })

\* the six indices pushed for side i between ring r and ring r + 1 of the
\* diagonal bar
DiagonalQuad(dBase, r, i) ==
    LET next == (i + 1) % 4
        a    == dBase + 4 * r
    IN  << a + i, a + next, a + 4 + next, a + i, a + 4 + next, a + 4 + i >>

\* static Mesh createLetterN(float height, float width, float thickness,
\*                           const Color& color)
CreateLetterN(height, width, thickness, color) ==
    LET half    == RoundDiv(Scale, 2)
        centreX == FMul(width, half) - FMul(thickness, half)
        hx      == FMul(thickness, half)
        hy      == FMul(height, half)
        leftBar  == BoxVertices(Corners(Vec3(FMul(0 - width, half) + FMul(thickness, half),
                                             0, 0), hx, hy, hx), color)
        rightBar == BoxVertices(Corners(Vec3(centreX, 0, 0), hx, hy, hx), color)
        diagonal == [k \in 1 .. 12 |->
                        DiagonalVertex(height, width, thickness,
                                       ((k - 1) \div 4) * half, (k - 1) % 4, color)]
    IN  [vertices |-> leftBar \o rightBar \o diagonal,
         indices  |-> BoxIndices(0) \o BoxIndices(24)
                        \o [k \in 1 .. 48 |->
                               DiagonalQuad(48, (k - 1) \div 24, ((k - 1) \div 6) % 4)
                                   [((k - 1) % 6) + 1]]]

\* a second half that keeps the winding of the first
DoubleSidedSameWinding(m) ==
    LET N == Len(m.vertices)
        M == Len(m.indices)
    IN  [vertices |-> m.vertices \o [k \in 1 .. N |->
                          [m.vertices[k] EXCEPT !.normal = VNeg(@)]],
         indices  |-> m.indices \o [k \in 1 .. M |-> N + m.indices[k]]]

\* makeDoubleSided(): the vertices again with inverted normals, and each
\* index triple (a, b, c) again as (a + N, c + N, b + N)
DoubleSided(m) ==
    LET N == Len(m.vertices)
        M == Len(m.indices)
    IN  [vertices |-> m.vertices \o [k \in 1 .. N |->
                          [m.vertices[k] EXCEPT !.normal = VNeg(@)]],
         indices  |-> m.indices \o [k \in 1 .. M |->
                          N + m.indices[CASE (k - 1) % 3 = 0 -> k
                                          [] (k - 1) % 3 = 1 -> k + 1
                                          [] OTHER -> k - 1]]]

\* arguments given to the generators
Sizes == { Scale, 2 * Scale }
Thicknesses == { RoundDiv(Scale, 4) }
MeshColors == { WHITE, RED }

\* vertices and indices pushed by hand
HandVertices ==
    { VertexOf(Vec3(0, 0, 0), Vec3(0, Scale, 0), WHITE),
      VertexOf(Vec3(Scale, 0, 0), Vec3(0, 0, Scale), RED) }
HandIndices == 0 .. (MaxVertices - 1)

\* a call on a Mesh leaves the framebuffer, the camera and the renderers alone
OnlyMesh ==
    UNCHANGED <<fbVars, camVars, modelMatrix, wireframe, mvp, triangleIndex, pc, tri,
                scan, line, drawn, trace, twoDVars, otherVars>>

\* how a generator call is recorded
Recipe(by, size, width, thickness, segments, rings, color) ==
    [by |-> by, size |-> size, width |-> width, thickness |-> thickness,
     segments |-> segments, rings |-> rings, color |-> color, doubled |-> 0]

\* no generator called yet
NoRecipe ==
    [by |-> "Mesh", size |-> 0, width |-> 0, thickness |-> 0, segments |-> 0,
     rings |-> 0, color |-> WHITE, doubled |-> 0]

\* the Mesh is still the default-constructed one
Fresh == built = NoRecipe /\ mesh = EmptyMesh

\* Mesh mesh = Mesh::createCube(size, color)
NewCube(size, color) ==
    /\ Fresh
    /\ mesh' = CreateCube(size, color)
    /\ built' = Recipe("createCube", size, 0, 0, 0, 0, color)
    /\ OnlyMesh

\* Mesh mesh = Mesh::createPyramid(size, color)
NewPyramid(size, color) ==
    /\ Fresh
    /\ mesh' = CreatePyramid(size, color)
    /\ built' = Recipe("createPyramid", size, 0, 0, 0, 0, color)
    /\ OnlyMesh

\* Mesh mesh = Mesh::createSphere(radius, segments, rings, color)
NewSphere(radius, segments, rings, color) ==
    /\ Fresh
    /\ mesh' = CreateSphere(radius, segments, rings, color)
    /\ built' = Recipe("createSphere", radius, 0, 0, segments, rings, color)
    /\ OnlyMesh

\* Mesh mesh = Mesh::createCornerCube(size, color)
NewCornerCube(size, color) ==
    /\ Fresh
    /\ mesh' = CreateCornerCube(size, color)
    /\ built' = Recipe("createCornerCube", size, 0, 0, 0, 0, color)
    /\ OnlyMesh

\* Mesh mesh = Mesh::createLetterN(height, width, thickness, color)
NewLetterN(height, width, thickness, color) ==
    /\ Fresh
    /\ mesh' = CreateLetterN(height, width, thickness, color)
    /\ built' = Recipe("createLetterN", height, width, thickness, 0, 0, color)
    /\ OnlyMesh

\* mesh.vertices.push_back(v) by the owner of the Mesh
PushVertex(v) ==
    /\ Len(mesh.vertices) < MaxVertices
    /\ mesh' = [mesh EXCEPT !.vertices = Append(@, v)]
    /\ UNCHANGED built
    /\ OnlyMesh

\* mesh.indices.push_back(i) by the owner of the Mesh
PushIndex(i) ==
    /\ Len(mesh.indices) < MaxIndices
    /\ mesh' = [mesh EXCEPT !.indices = Append(@, i)]
    /\ UNCHANGED built
    /\ OnlyMesh

\* mesh.makeDoubleSided() on a mesh of whole triangles
MakeDoubleSided ==
    /\ built.doubled < MaxDoubled
    /\ Len(mesh.indices) % 3 = 0
    /\ mesh' = DoubleSided(mesh)
    /\ built' = [built EXCEPT !.doubled = @ + 1]
    /\ OnlyMesh

MeshNext ==
    \/ \E size \in Sizes, color \in MeshColors : NewCube(size, color)
    \/ \E size \in Sizes, color \in MeshColors : NewPyramid(size, color)
    \/ \E radius \in Sizes, segments \in 1 .. MaxSegments, rings \in 1 .. MaxRings,
          color \in MeshColors : NewSphere(radius, segments, rings, color)
    \/ \E size \in Sizes, color \in MeshColors : NewCornerCube(size, color)
    \/ \E height \in Sizes, width \in Sizes, thickness \in Thicknesses,
          color \in MeshColors : NewLetterN(height, width, thickness, color)
    \/ \E v \in HandVertices : PushVertex(v)
    \/ \E i \in HandIndices : PushIndex(i)
    \/ MakeDoubleSided

-----------------------------------------------------------------------------
(* Renderer3D (src/Renderer3D.h) and the line drawing of Renderer (src/Renderer.h) *)

\* a point given in half units
Pt(x, y, z) == Vec3(x * (Scale \div 2), y * (Scale \div 2), z * (Scale \div 2))

Tri(p0, p1, p2, col) == << Vertex(p0, col), Vertex(p1, col), Vertex(p2, col) >>

\* triangles handed to drawMesh; the camera of DrawCamera sits at z = 2 and
\* looks down the negative z axis, so a vertex at depth z has w = 2 - z
FrontCCW  == Tri(Pt(0 - 4, 0 - 4, 0), Pt(4, 0 - 4, 0), Pt(0, 4, 0), WHITE)
FrontCW   == Tri(Pt(0 - 4, 0 - 4, 0), Pt(0, 4, 0), Pt(4, 0 - 4, 0), RED)
Collinear == Tri(Pt(0 - 4, 0, 0), Pt(0, 0, 0), Pt(4, 0, 0), GREEN)
OffCW     == Tri(Pt(12, 0 - 4, 0), Pt(16, 4, 0), Pt(20, 0 - 4, 0), BLUE)
OffCCW    == Tri(Pt(12, 0 - 4, 0), Pt(20, 0 - 4, 0), Pt(16, 4, 0), BLUE)
Tiny      == Tri(Pt(0 - 4, 4, 0), Pt(0 - 3, 4, 0), Pt(0 - 4, 3, 0), GREEN)
Behind    == Tri(Pt(0 - 4, 0 - 4, 6), Pt(4, 0 - 4, 6), Pt(0, 4, 4), WHITE)
Partial   == Tri(Pt(0 - 4, 0 - 4, 0), Pt(0, 0 - 4, 6), Pt(4, 0 - 4, 0), BLUE)
PartialW0 == Tri(Pt(0 - 4, 4, 0), Pt(4, 4, 0), Pt(0, 0 - 2, 4), GREEN)
\* a triangle with sides of 4 / Scale, which passes the cull: on a screen of
\* 2 x 2 pixels its area is 4 / Scale^2, less than 0.0001
Sliver    == Tri(Vec3(0, 0, 0), Vec3(0, 4, 0), Vec3(4, 0, 0), WHITE)

\* a triangle that is drawn, with vertex colours whose sum passes 255
Mixed ==
    << Vertex(Pt(0 - 4, 0 - 4, 0), WHITE), Vertex(Pt(0, 4, 0), WHITE),
       Vertex(Pt(4, 0 - 4, 0), RED) >>

Triangles ==
    { FrontCCW, FrontCW, Collinear, OffCW, OffCCW, Tiny, Behind, Partial, PartialW0,
      Sliver, Mixed }

\* the meshes of one to MaxTriangles of these triangles
Meshes ==
    { MeshOf(s) : s \in UNION { [1 .. n -> Triangles] : n \in 1 .. MaxTriangles } }

\* model matrices: the identity and a half turn about the y axis
ModelMatrices == { Identity4, RotateY(Pi) }

\* the three clip-space vertices: mvp * Vec4(v.position, 1.0f)
ClipVertices(m, v) ==
    << MatVec(m, Vec4(v[1].position, Scale)),
       MatVec(m, Vec4(v[2].position, Scale)),
       MatVec(m, Vec4(v[3].position, Scale)) >>

\* a reject test that skips a triangle as soon as one vertex is behind
SomeBehind(c) == c[1][4] <= 0 \/ c[2][4] <= 0 \/ c[3][4] <= 0

\* clipV0.w <= 0 && clipV1.w <= 0 && clipV2.w <= 0
AllBehind(c) == c[1][4] <= 0 /\ c[2][4] <= 0 /\ c[3][4] <= 0

\* the perspective division of the three vertices
NdcVertices(c) == << ToVec3(c[1]), ToVec3(c[2]), ToVec3(c[3]) >>

\* the viewport transformation of one vertex
ScreenVertex(n) == Vec2(ViewportX(n[1], Width), ViewportY(n[2], Height))

ScreenVertices(n) == << ScreenVertex(n[1]), ScreenVertex(n[2]), ScreenVertex(n[3]) >>

\* edge1.cross(edge2) of the screen triangle
ScreenCross(s) == Cross2(V2Sub(s[2], s[1]), V2Sub(s[3], s[1]))

\* a cull test that keeps the triangles of zero area
IsBackFacingStrict(cross) == cross < 0

\* if (cross <= 0) continue;
IsBackFacing(cross) == cross <= 0

\* Vec3 calculateTriangleNormal(v0, v1, v2)
CalculateTriangleNormal(v0, v1, v2) ==
    Normalized3(Cross3(VSub(v1, v0), VSub(v2, v0)))

\* Vec3(0.3f, 0.8f, 0.5f).normalized()
LightDir ==
    Normalized3(Vec3(RoundDiv(3 * Scale, 10), RoundDiv(8 * Scale, 10),
                     RoundDiv(5 * Scale, 10)))

\* ambient + (1 - ambient) * diffuse, clamped to [0, 1]
Brightness(v, M) ==
    LET objectNormal == CalculateTriangleNormal(v[1].position, v[2].position,
                                                v[3].position)
        worldNormal  == Normalized3(TransformDirection(M, objectNormal))
        diffuse      == Max2(0, Dot3(worldNormal, LightDir))
        ambient      == RoundDiv(3 * Scale, 10)
    IN  Min2(Scale, Max2(0, ambient + FMul(Scale - ambient, diffuse)))

\* the lit colour when the sum of the three channels is kept in a uint8_t
LitColorWrapped(v, M) ==
    LET b    == Brightness(v, M)
        base == [k \in 1 .. 3 |->
                    ((v[1].color[k] + v[2].color[k] + v[3].color[k]) % 256) \div 3]
    IN  Color(TruncDiv(base[1] * b, Scale), TruncDiv(base[2] * b, Scale),
              TruncDiv(base[3] * b, Scale), 255)

\* the averaged vertex colour scaled by the brightness, each channel
\* truncated to uint8_t
LitColor(v, M) ==
    LET b    == Brightness(v, M)
        base == [k \in 1 .. 3 |-> (v[1].color[k] + v[2].color[k] + v[3].color[k]) \div 3]
    IN  Color(TruncDiv(base[1] * b, Scale), TruncDiv(base[2] * b, Scale),
              TruncDiv(base[3] * b, Scale), 255)

Min3(a, b, c) == Min2(a, Min2(b, c))
Max3(a, b, c) == Max2(a, Max2(b, c))

\* a bounding box that is not clamped to the framebuffer
BoundingBoxUnclamped(s) ==
    LET minX == TruncDiv(Min3(s[1][1], s[2][1], s[3][1]), Scale)
        maxX == TruncDiv(Max3(s[1][1], s[2][1], s[3][1]), Scale)
        minY == TruncDiv(Min3(s[1][2], s[2][2], s[3][2]), Scale)
        maxY == TruncDiv(Max3(s[1][2], s[2][2], s[3][2]), Scale)
    IN  [minX |-> minX, maxX |-> maxX, minY |-> minY, maxY |-> maxY,
         x |-> minX, y |-> minY]

\* the clamped bounding box of drawTriangle3D, and its loop variables at
\* the first pixel
BoundingBox(s) ==
    LET minX == TruncDiv(Max2(0, Min3(s[1][1], s[2][1], s[3][1])), Scale)
        maxX == TruncDiv(Min2((Width - 1) * Scale, Max3(s[1][1], s[2][1], s[3][1])), Scale)
        minY == TruncDiv(Max2(0, Min3(s[1][2], s[2][2], s[3][2])), Scale)
        maxY == TruncDiv(Min2((Height - 1) * Scale, Max3(s[1][2], s[2][2], s[3][2])), Scale)
    IN  [minX |-> minX, maxX |-> maxX, minY |-> minY, maxY |-> maxY,
         x |-> minX, y |-> minY]

\* Vec2 p(x + 0.5f, y + 0.5f)
PixelCentre(x, y) == Vec2(x * Scale + RoundDiv(Scale, 2), y * Scale + RoundDiv(Scale, 2))

\* a fill that never takes a triangle for degenerate
IsDegenerateNever(area) == FALSE

\* std::abs(area) < 0.0001f, for an area in units of 1 / Scale^2:
\* |area| * 10000 < Scale^2, written without the large product
IsDegenerate(area) == Abs(area) <= (Scale * Scale - 1) \div 10000

\* the numerators of the barycentric weights w0, w1, w2 of p
WeightNumerators(s, p) ==
    << Cross2(V2Sub(s[2], p), V2Sub(s[3], p)),
       Cross2(V2Sub(s[3], p), V2Sub(s[1], p)),
       Cross2(V2Sub(s[1], p), V2Sub(s[2], p)) >>

\* w >= 0 for w = num / area: the sign of a float quotient is exact
QuotientNonNegative(num, area) == num = 0 \/ (num > 0) = (area > 0)

\* w0 >= 0 && w1 >= 0 && w2 >= 0
IsInside(s, p) ==
    LET area == ScreenCross(s)
        n    == WeightNumerators(s, p)
    IN  /\ QuotientNonNegative(n[1], area)
        /\ QuotientNonNegative(n[2], area)
        /\ QuotientNonNegative(n[3], area)

\* w0 * depth0 + w1 * depth1 + w2 * depth2
InterpolatedDepth(s, d, p) ==
    LET area == ScreenCross(s)
        n    == WeightNumerators(s, p)
    IN  FMul(FDiv(n[1], area), d[1]) + FMul(FDiv(n[2], area), d[2])
          + FMul(FDiv(n[3], area), d[3])

\* static_cast<int>(float)
ToInt(f) == TruncDiv(f, Scale)

\* the variables of drawLine(p0, p1, color) before its loop, for the edge
\* with the given number: 0 is v0-v1, 1 is v1-v2, 2 is v2-v0
LineStart(s, edge) ==
    LET p0 == s[edge + 1]
        p1 == s[((edge + 1) % 3) + 1]
        x0 == ToInt(p0[1])
        y0 == ToInt(p0[2])
        x1 == ToInt(p1[1])
        y1 == ToInt(p1[2])
    IN  [edge |-> edge, x0 |-> x0, y0 |-> y0, x1 |-> x1, y1 |-> y1,
         dx |-> Abs(x1 - x0), dy |-> Abs(y1 - y0),
         sx |-> IF x0 < x1 THEN 1 ELSE 0 - 1,
         sy |-> IF y0 < y1 THEN 1 ELSE 0 - 1,
         err |-> Abs(x1 - x0) - Abs(y1 - y0)]

\* a step that moves along one axis only: in y only when it did not move in x
LineAdvanceOneAxis(l) ==
    LET e2   == 2 * l.err
        stx  == e2 > 0 - l.dy
        sty  == ~stx /\ e2 < l.dx
    IN  [l EXCEPT !.err = IF stx THEN l.err - l.dy ELSE IF sty THEN l.err + l.dx ELSE l.err,
                  !.x0 = IF stx THEN l.x0 + l.sx ELSE l.x0,
                  !.y0 = IF sty THEN l.y0 + l.sy ELSE l.y0]

\* one iteration of the loop of drawLine past its break
LineAdvance(l) ==
    LET e2   == 2 * l.err
        stx  == e2 > 0 - l.dy
        err1 == IF stx THEN l.err - l.dy ELSE l.err
        sty  == e2 < l.dx
    IN  [l EXCEPT !.err = IF sty THEN err1 + l.dx ELSE err1,
                  !.x0 = IF stx THEN l.x0 + l.sx ELSE l.x0,
                  !.y0 = IF sty THEN l.y0 + l.sy ELSE l.y0]

\* the per-triangle locals of drawMesh before they are computed
NoTri ==
    [clipV   |-> << <<0, 0, 0, 0>>, <<0, 0, 0, 0>>, <<0, 0, 0, 0>> >>,
     ndcV    |-> << <<0, 0, 0>>, <<0, 0, 0>>, <<0, 0, 0>> >>,
     screenV |-> << <<0, 0>>, <<0, 0>>, <<0, 0>> >>,
     depth   |-> <<0, 0, 0>>,
     cross   |-> 0,
     litColor |-> BLACK]

NoScan == [minX |-> 0, maxX |-> 0, minY |-> 0, maxY |-> 0, x |-> 0, y |-> 0]

NoLine == [edge |-> 0, x0 |-> 0, y0 |-> 0, x1 |-> 0, y1 |-> 0,
           dx |-> 0, dy |-> 0, sx |-> 1, sy |-> 1, err |-> 0]

NoDrawn == [pixels |-> {}, depths |-> {}, before |-> <<>>]

\* a Renderer3D on the framebuffer, before drawMesh is called
DrawInit ==
    /\ mesh = MeshOf(<<>>)
    /\ modelMatrix = Identity4
    /\ wireframe = FALSE
    /\ mvp = Identity4
    /\ triangleIndex = 0
    /\ pc = "idle"
    /\ tri = NoTri
    /\ scan = NoScan
    /\ line = NoLine
    /\ drawn = NoDrawn
    /\ trace = <<>>

\* no 2D call made yet
NoCall == [op |-> "none"]

\* no function called on values yet
NoEval == [op |-> "none"]

\* the program before main constructs its window
NoApp ==
    [pc |-> "start", platform |-> "none", held |-> {}, failed |-> {}, frames |-> 0,
     exitCode |-> 0 - 1, sizes |-> [m \in 1 .. MaxMeshes |-> 3]]

\* the RendererGL that is not constructed yet
NoRendererGL ==
    [alive |-> FALSE, uploadedMeshes |-> [m \in {} |-> 0], next |-> 1, live |-> {},
     deleted |-> <<>>, uploads |-> <<>>, last |-> [op |-> "none"], calls |-> 0]

RestInit ==
    /\ built = NoRecipe
    /\ call2D = NoCall
    /\ visited = <<>>
    /\ divisors = <<>>
    /\ evaluated = NoEval
    /\ app = NoApp
    /\ rgl = NoRendererGL

camFields == <<position, target, up, yaw, pitch, fov, aspect, nearPlane, farPlane, calls>>

\* drawMesh up to its loop: both matrix getters and the MVP product
DrawMeshBegin(m, M, wf) ==
    /\ pc = "idle"
    /\ RefreshView
    /\ RefreshProjection
    /\ mesh' = m
    /\ modelMatrix' = M
    /\ wireframe' = wf
    /\ mvp' = MatMul(MatMul(projectionMatrix', viewMatrix'), M)
    /\ triangleIndex' = 0
    /\ pc' = "loop"
    /\ UNCHANGED <<tri, scan, line, drawn, trace, fbVars, camFields, restVars>>

\* what the finished triangle leaves in the history of the call
Finished(outcome, t, d) ==
    [outcome |-> outcome, index |-> triangleIndex, tri |-> t, pixels |-> d.pixels,
     depths |-> d.depths, before |-> d.before]

\* a loop that a culled triangle leaves with break
EndTriangleBreak(outcome, t, d) ==
    /\ triangleIndex' = triangleIndex + 1
    /\ pc' = IF outcome = "culled" THEN "done" ELSE "loop"
    /\ trace' = Append(trace, Finished(outcome, t, d))

\* continue, or the end of the loop body: the triangle is recorded and triangleIndex++
EndTriangle(outcome, t, d) ==
    /\ triangleIndex' = triangleIndex + 1
    /\ pc' = "loop"
    /\ trace' = Append(trace, Finished(outcome, t, d))

\* the loop condition, getTriangle and the vertex processing
ForTriangle ==
    /\ pc = "loop"
    /\ IF triangleIndex < GetTriangleCount(mesh)
       THEN /\ tri' = [NoTri EXCEPT !.clipV = ClipVertices(mvp, GetTriangle(mesh, triangleIndex))]
            /\ drawn' = [pixels |-> {}, depths |-> {}, before |-> depthBuffer]
            /\ pc' = "clip"
       ELSE /\ pc' = "done"
            /\ UNCHANGED <<tri, drawn>>
    /\ UNCHANGED <<mesh, modelMatrix, wireframe, mvp, triangleIndex, scan, line, trace,
                   fbVars, camVars, restVars>>

\* the trivial reject, then perspective division and viewport transformation
ClipTest ==
    /\ pc = "clip"
    /\ IF AllBehind(tri.clipV)
       THEN /\ EndTriangle("rejected", tri, drawn)
            /\ UNCHANGED tri
       ELSE /\ tri' = LET n == NdcVertices(tri.clipV)
                      IN  [tri EXCEPT !.ndcV = n,
                                      !.screenV = ScreenVertices(n),
                                      !.depth = <<n[1][3], n[2][3], n[3][3]>>]
            /\ pc' = "cull"
            /\ UNCHANGED <<triangleIndex, trace>>
    /\ UNCHANGED <<mesh, modelMatrix, wireframe, mvp, scan, line, drawn,
                   fbVars, camVars, restVars>>

\* backface culling, then the lighting calculation and the entry into
\* drawLine (wireframe) or drawTriangle3D (filled)
CullTest ==
    /\ pc = "cull"
    /\ LET t1 == [tri EXCEPT !.cross = ScreenCross(tri.screenV)]
       IN  IF IsBackFacing(t1.cross)
           THEN /\ tri' = t1
                /\ EndTriangle("culled", t1, drawn)
                /\ UNCHANGED <<scan, line>>
           ELSE /\ tri' = [t1 EXCEPT !.litColor =
                                         LitColor(GetTriangle(mesh, triangleIndex), modelMatrix)]
                /\ IF wireframe
                   THEN /\ line' = LineStart(tri.screenV, 0)
                        /\ pc' = "line"
                        /\ UNCHANGED scan
                   ELSE /\ scan' = BoundingBox(tri.screenV)
                        /\ pc' = "scan"
                        /\ UNCHANGED line
                /\ UNCHANGED <<triangleIndex, trace>>
    /\ UNCHANGED <<mesh, modelMatrix, wireframe, mvp, drawn, fbVars, camVars, restVars>>

\* what setPixelDepth adds to the history of the pixel
RecordSubmitted(x, y, depth, color) ==
    submitted' = IF OutOfBounds(x, y) THEN submitted
                 ELSE [submitted EXCEPT ![PixelIndex(x, y)] =
                           Append(@, <<depth, color>>)]

\* the body of the pixel loops of drawTriangle3D for the pixel (x, y); past
\* the area check the three weights are divided by the area
ScanPixel(x, y) ==
    LET p    == PixelCentre(x, y)
        area == ScreenCross(tri.screenV)
    IN  IF IsDegenerate(area)
        THEN UNCHANGED <<fbVars, drawn, divisors>>
        ELSE /\ divisors' = divisors \o <<area, area, area>>
             /\ IF IsInside(tri.screenV, p)
                THEN LET depth == InterpolatedDepth(tri.screenV, tri.depth, p)
                     IN  /\ SetPixelDepthAt(x, y, depth, tri.litColor)
                         /\ RecordSubmitted(x, y, depth, tri.litColor)
                         /\ UNCHANGED colorOnly
                         /\ drawn' = IF fbRet'.flag
                                     THEN [drawn EXCEPT !.pixels = @ \cup fbTouched',
                                                        !.depths = @ \cup fbTouched']
                                     ELSE drawn
                ELSE UNCHANGED <<fbVars, drawn>>

\* one step of the loops of drawTriangle3D: a pixel, the end of a row,
\* or the end of the triangle
ScanStep ==
    /\ pc = "scan"
    /\ IF scan.y > scan.maxY
       THEN /\ EndTriangle("drawn", tri, drawn)
            /\ UNCHANGED <<scan, drawn, fbVars, divisors>>
       ELSE IF scan.x > scan.maxX
       THEN /\ scan' = [scan EXCEPT !.x = scan.minX, !.y = @ + 1]
            /\ UNCHANGED <<triangleIndex, pc, trace, drawn, fbVars, divisors>>
       ELSE /\ ScanPixel(scan.x, scan.y)
            /\ scan' = [scan EXCEPT !.x = @ + 1]
            /\ UNCHANGED <<triangleIndex, pc, trace>>
    /\ UNCHANGED <<mesh, modelMatrix, wireframe, mvp, tri, line, camVars, meshVars,
                   call2D, visited, otherVars>>

\* one iteration of the loop of drawLine: drawPixel, then the break (on to
\* the next edge, or the end of the triangle) or a Bresenham step
LineStep ==
    /\ pc = "line"
    /\ SetPixelAt(line.x0, line.y0, tri.litColor)
    /\ fbRet' = RetVoid
    /\ UNCHANGED <<depthBuffer, submitted>>
    /\ drawn' = [drawn EXCEPT !.pixels = @ \cup fbTouched']
    /\ IF line.x0 = line.x1 /\ line.y0 = line.y1
       THEN IF line.edge < 2
            THEN /\ line' = LineStart(tri.screenV, line.edge + 1)
                 /\ UNCHANGED <<triangleIndex, pc, trace>>
            ELSE /\ EndTriangle("drawn", tri, drawn')
                 /\ UNCHANGED line
       ELSE /\ line' = LineAdvance(line)
            /\ UNCHANGED <<triangleIndex, pc, trace>>
    /\ UNCHANGED <<mesh, modelMatrix, wireframe, mvp, tri, scan, camVars, restVars>>

DrawMeshNext ==
    \/ \E m \in Meshes, M \in ModelMatrices, wf \in BOOLEAN : DrawMeshBegin(m, M, wf)
    \/ ForTriangle
    \/ ClipTest
    \/ CullTest
    \/ ScanStep
    \/ LineStep

-----------------------------------------------------------------------------
(* Renderer (src/Renderer.h): drawLine and drawTriangle in 2D *)

\* the float values that are not numbers; PosInf is the positive infinity
NegInf == 0 - PosInf
NaN == 2 * PosInf

\* float a / b; the fixed-point zero stands for both +0 and -0, so the sign
\* zs of a zero divisor is an argument
FloatDiv(a, b, zs) ==
    IF b # 0 THEN FDiv(a, b)
    ELSE IF a = 0 THEN NaN
    ELSE IF (a > 0) = (zs > 0) THEN PosInf
    ELSE NegInf

\* float a - b
FloatSub(a, b) ==
    IF a = NaN \/ b = NaN THEN NaN
    ELSE IF a \in {PosInf, NegInf} THEN (IF b = a THEN NaN ELSE a)
    ELSE IF b = PosInf THEN NegInf
    ELSE IF b = NegInf THEN PosInf
    ELSE a - b

\* w >= 0 on floats: false for NaN
GeZero(w) == w # NaN /\ w >= 0

\* the divisor and the three weights of isPointInTriangle(p, v0, v1, v2)
Weights2D(p, v0, v1, v2, zs) ==
    LET d00 == Cross2(V2Sub(v1, v0), V2Sub(v2, v0))
        d01 == Cross2(V2Sub(v1, v0), V2Sub(p, v0))
        d02 == Cross2(V2Sub(p, v0), V2Sub(v2, v0))
        w1  == FloatDiv(d02, d00, zs)
        w2  == FloatDiv(d01, d00, zs)
    IN  [d00 |-> d00, w1 |-> w1, w2 |-> w2,
         w0 |-> FloatSub(FloatSub(Scale, w1), w2)]

\* bool isPointInTriangle(const Vec2& p, const Vec2& v0, const Vec2& v1, const Vec2& v2)
IsPointInTriangle(p, v0, v1, v2, zs) ==
    LET w == Weights2D(p, v0, v1, v2, zs)
    IN  GeZero(w.w0) /\ GeZero(w.w1) /\ GeZero(w.w2)

\* the three swaps of drawTriangle: afterwards v0.y <= v1.y <= v2.y
SortByY(v) ==
    LET a == IF v[1][2] > v[2][2] THEN <<v[2], v[1], v[3]>> ELSE v
        b == IF a[1][2] > a[3][2] THEN <<a[3], a[2], a[1]>> ELSE a
    IN  IF b[2][2] > b[3][2] THEN <<b[1], b[3], b[2]>> ELSE b

\* the bounding box of fillFlatBottomTriangle
Box2D(v) ==
    [minX |-> ToInt(Min3(v[1][1], v[2][1], v[3][1])),
     maxX |-> ToInt(Max3(v[1][1], v[2][1], v[3][1])),
     minY |-> ToInt(Min3(v[1][2], v[2][2], v[3][2])),
     maxY |-> ToInt(Max3(v[1][2], v[2][2], v[3][2]))]

\* the variables of drawLine(x0, y0, x1, y1, color) before its loop
LineFrom(x0, y0, x1, y1) ==
    [edge |-> 0, x0 |-> x0, y0 |-> y0, x1 |-> x1, y1 |-> y1,
     dx |-> Abs(x1 - x0), dy |-> Abs(y1 - y0),
     sx |-> IF x0 < x1 THEN 1 ELSE 0 - 1,
     sy |-> IF y0 < y1 THEN 1 ELSE 0 - 1,
     err |-> Abs(x1 - x0) - Abs(y1 - y0)]

\* the endpoints drawLine is called with
LineXs == (0 - 1) .. MaxLineX
LineYs == (0 - 1) .. MaxLineY

\* the corners drawTriangle is called with: the points of a grid, and one
\* point between them
Corners2D ==
    { Vec2(x * Scale, y * Scale) : x \in 0 .. MaxGrid, y \in 0 .. MaxGrid }
        \cup { Vec2(Scale \div 2, 3 * (Scale \div 2)) }

\* a 2D call leaves the depth buffer, the camera, the 3D renderer and the
\* mesh alone
Only2D == UNCHANGED <<depthBuffer, submitted, camVars, drawVars, meshVars, otherVars>>

\* drawPixel(x, y, color), remembered in visited
DrawPixel(x, y, color) ==
    /\ SetPixelAt(x, y, color)
    /\ fbRet' = RetVoid
    /\ visited' = Append(visited, <<x, y>>)

\* void drawLine(int x0, int y0, int x1, int y1, const Color& color): up to its loop
DrawLine(x0, y0, x1, y1, color) ==
    /\ call2D = NoCall
    /\ call2D' = [op |-> "drawLine", at |-> "loop", color |-> color,
                  from |-> <<x0, y0>>, to |-> <<x1, y1>>,
                  l |-> LineFrom(x0, y0, x1, y1)]
    /\ UNCHANGED <<pixels, fbRet, fbTouched, colorOnly, visited, divisors>>
    /\ Only2D

\* one iteration of the loop of drawLine: drawPixel, then the break or a step
DrawLineLoop ==
    /\ call2D.op = "drawLine"
    /\ call2D.at = "loop"
    /\ DrawPixel(call2D.l.x0, call2D.l.y0, call2D.color)
    /\ IF call2D.l.x0 = call2D.l.x1 /\ call2D.l.y0 = call2D.l.y1
       THEN call2D' = [call2D EXCEPT !.at = "done"]
       ELSE call2D' = [call2D EXCEPT !.l = LineAdvance(@)]
    /\ UNCHANGED divisors
    /\ Only2D

\* void drawTriangle(Vec2 v0, Vec2 v1, Vec2 v2, const Color& color): the sort
\* and fillFlatBottomTriangle up to its loops
DrawTriangle(v0, v1, v2, color) ==
    /\ call2D = NoCall
    /\ LET v   == SortByY(<<v0, v1, v2>>)
           box == Box2D(v)
       IN  call2D' = [op |-> "drawTriangle", at |-> "loop", color |-> color,
                      v |-> v, box |-> box, x |-> box.minX, y |-> box.minY]
    /\ UNCHANGED <<pixels, fbRet, fbTouched, colorOnly, visited, divisors>>
    /\ Only2D

\* one pixel of the bounding box: the test, with its two divisions, and the
\* drawPixel of a pixel that passes
FillFlatBottomLoop ==
    /\ call2D.op = "drawTriangle"
    /\ call2D.at = "loop"
    /\ \E zs \in {1, 0 - 1} :
        LET p == Vec2(call2D.x * Scale, call2D.y * Scale)
            v == call2D.v
        IN  /\ divisors' = divisors \o << Weights2D(p, v[1], v[2], v[3], zs).d00,
                                          Weights2D(p, v[1], v[2], v[3], zs).d00 >>
            /\ IF IsPointInTriangle(p, v[1], v[2], v[3], zs)
               THEN DrawPixel(call2D.x, call2D.y, call2D.color)
               ELSE UNCHANGED <<pixels, fbRet, fbTouched, colorOnly, visited>>
    /\ call2D' = IF call2D.x < call2D.box.maxX
                 THEN [call2D EXCEPT !.x = @ + 1]
                 ELSE IF call2D.y < call2D.box.maxY
                 THEN [call2D EXCEPT !.x = call2D.box.minX, !.y = @ + 1]
                 ELSE [call2D EXCEPT !.at = "done"]
    /\ Only2D

Renderer2DNext ==
    \/ \E x0 \in LineXs, y0 \in LineYs, x1 \in LineXs, y1 \in LineYs :
           DrawLine(x0, y0, x1, y1, WHITE)
    \/ DrawLineLoop
    \/ \E v0 \in Corners2D, v1 \in Corners2D, v2 \in Corners2D :
           DrawTriangle(v0, v1, v2, WHITE)
    \/ FillFlatBottomLoop

-----------------------------------------------------------------------------
(* Renderer (src/Renderer.h): drawCircle and drawFilledCircle *)

\* x, y and d of the midpoint loop before its first iteration
CircleStart(radius) == [x |-> 0, y |-> radius, d |-> 1 - radius]

\* the end of one iteration: d, y and x are updated
CircleAdvance(c) ==
    IF c.d < 0
    THEN [x |-> c.x + 1, y |-> c.y, d |-> c.d + 2 * c.x + 3]
    ELSE [x |-> c.x + 1, y |-> c.y - 1, d |-> c.d + 2 * (c.x - c.y) + 5]

\* drawSymmetricPoints with the four swapped points left out
DrawSymmetricPointsFourWay(cx, cy, x, y) ==
    << <<cx + x, cy + y>>, <<cx - x, cy + y>>, <<cx + x, cy - y>>, <<cx - x, cy - y>> >>

\* the eight drawPixel calls of drawSymmetricPoints(x, y), in order
DrawSymmetricPoints(cx, cy, x, y) ==
    << <<cx + x, cy + y>>, <<cx - x, cy + y>>, <<cx + x, cy - y>>, <<cx - x, cy - y>>,
       <<cx + y, cy + x>>, <<cx - y, cy + x>>, <<cx + y, cy - x>>, <<cx - y, cy - x>> >>

\* the drawPixel calls of drawHorizontalLine(x1, x2, y), in order
DrawHorizontalLine(x1, x2, y) ==
    LET lo == Min2(x1, x2)
        hi == Max2(x1, x2)
    IN  [i \in 1 .. (hi - lo + 1) |-> <<lo + i - 1, y>>]

\* the four drawHorizontalLine calls of one iteration of drawFilledCircle
DrawFourLines(cx, cy, x, y) ==
    DrawHorizontalLine(cx - x, cx + x, cy + y)
        \o DrawHorizontalLine(cx - x, cx + x, cy - y)
        \o DrawHorizontalLine(cx - y, cx + y, cy + x)
        \o DrawHorizontalLine(cx - y, cx + y, cy - x)

\* the drawPixel calls of ps made one after the other with the same color
DrawPixels(ps, color) ==
    LET inside == { PixelIndex(ps[i][1], ps[i][2]) :
                        i \in { j \in DOMAIN ps : ~OutOfBounds(ps[j][1], ps[j][2]) } }
        last   == ps[Len(ps)]
    IN  /\ pixels' = [i \in BufferIndices |-> IF i \in inside THEN color ELSE pixels[i]]
        /\ colorOnly' = [i \in BufferIndices |-> IF i \in inside THEN TRUE ELSE colorOnly[i]]
        /\ fbTouched' = IF ps = <<>> THEN fbTouched
                        ELSE IF OutOfBounds(last[1], last[2]) THEN {}
                        ELSE {PixelIndex(last[1], last[2])}
        /\ fbRet' = IF ps = <<>> THEN fbRet ELSE RetVoid
        /\ visited' = visited \o ps

\* the centres and radii the circles are drawn with
CircleCentres == (0 - 1) .. Width
Radii == (0 - 1) .. MaxRadius

\* void drawCircle(int cx, int cy, int radius, const Color& color): up to its loop
DrawCircle(cx, cy, radius, color) ==
    /\ call2D = NoCall
    /\ call2D' = [op |-> "drawCircle", color |-> color,
                  at |-> IF 0 <= radius THEN "loop" ELSE "done",
                  cx |-> cx, cy |-> cy, radius |-> radius,
                  c |-> CircleStart(radius), iterations |-> 0]
    /\ UNCHANGED <<pixels, fbRet, fbTouched, colorOnly, visited, divisors>>
    /\ Only2D

\* one iteration of while (x <= y), and the test that follows it
CircleLoop(op, points) ==
    /\ call2D # NoCall
    /\ call2D.op = op
    /\ call2D.at = "loop"
    /\ DrawPixels(points, call2D.color)
    /\ LET next == CircleAdvance(call2D.c)
       IN  call2D' = [call2D EXCEPT !.c = next, !.iterations = @ + 1,
                                    !.at = IF next.x <= next.y THEN "loop" ELSE "done"]
    /\ UNCHANGED divisors
    /\ Only2D

\* drawCircle: one iteration of its loop
DrawCircleLoop ==
    /\ call2D # NoCall
    /\ CircleLoop("drawCircle",
                  DrawSymmetricPoints(call2D.cx, call2D.cy, call2D.c.x, call2D.c.y))

\* void drawFilledCircle(int cx, int cy, int radius, const Color& color): up to its loop
DrawFilledCircle(cx, cy, radius, color) ==
    /\ call2D = NoCall
    /\ call2D' = [op |-> "drawFilledCircle", color |-> color,
                  at |-> IF 0 <= radius THEN "loop" ELSE "done",
                  cx |-> cx, cy |-> cy, radius |-> radius,
                  c |-> CircleStart(radius), iterations |-> 0]
    /\ UNCHANGED <<pixels, fbRet, fbTouched, colorOnly, visited, divisors>>
    /\ Only2D

\* drawFilledCircle: one iteration of its loop
DrawFilledCircleLoop ==
    /\ call2D # NoCall
    /\ CircleLoop("drawFilledCircle",
                  DrawFourLines(call2D.cx, call2D.cy, call2D.c.x, call2D.c.y))

\* one circle call, outline or filled, and its iterations
CircleNext ==
    \/ \E cx \in CircleCentres, cy \in CircleCentres, radius \in Radii :
           DrawCircle(cx, cy, radius, WHITE)
    \/ DrawCircleLoop
    \/ \E cx \in CircleCentres, cy \in CircleCentres, radius \in Radii :
           DrawFilledCircle(cx, cy, radius, WHITE)
    \/ DrawFilledCircleLoop

-----------------------------------------------------------------------------
(* Window (src/Window.h), WindowGL (src/WindowGL.h), RendererGL
   (src/RendererGL.h) and main (src/main.cpp) *)

\* the Mesh objects of the program, by address, and the sizes of their
\* index vectors
MeshAddresses == 1 .. MaxMeshes
IndexCounts == {3, 6}

\* the steps of the constructors that can fail, in order
WindowGLSteps == <<"SDL_Init", "SDL_CreateWindow", "SDL_GL_CreateContext", "glewInit">>
WindowSteps == <<"SDL_Init", "SDL_CreateWindow", "SDL_CreateRenderer", "SDL_CreateTexture">>

\* what each step acquires when it succeeds; glewInit acquires nothing
Acquires(step) ==
    CASE step = "SDL_Init" -> {"sdl"}
      [] step = "SDL_CreateWindow" -> {"window"}
      [] step = "SDL_GL_CreateContext" -> {"glContext"}
      [] step = "SDL_CreateRenderer" -> {"renderer"}
      [] step = "SDL_CreateTexture" -> {"texture"}
      [] OTHER -> {}

\* what the steps before the i-th have acquired
AcquiredBefore(steps, i) == UNION { Acquires(steps[j]) : j \in 1 .. (i - 1) }

\* what the constructor releases before it throws for a failed step
ReleasedOnFailure(step) ==
    CASE step = "SDL_Init" -> {}
      [] step = "SDL_CreateWindow" -> {"sdl"}
      [] step = "SDL_GL_CreateContext" -> {"window", "sdl"}
      [] step = "glewInit" -> {"glContext", "window", "sdl"}
      [] step = "SDL_CreateRenderer" -> {"window", "sdl"}
      [] step = "SDL_CreateTexture" -> {"renderer", "window", "sdl"}

\* the checks of compileShaders and compileShadowShaders
ShaderChecks ==
    {"VERTEX", "FRAGMENT", "LINK", "SHADOW_VERTEX", "SHADOW_FRAGMENT", "SHADOW_LINK"}

\* the sets of checks that can fail together: a program whose shader did
\* not compile does not link
ShaderFailures ==
    { F \in SUBSET ShaderChecks :
        /\ ({"VERTEX", "FRAGMENT"} \cap F # {} => "LINK" \in F)
        /\ ({"SHADOW_VERTEX", "SHADOW_FRAGMENT"} \cap F # {} => "SHADOW_LINK" \in F) }

\* what the RendererGL constructor creates and its destructor deletes
RendererGLObjects ==
    {"shaderProgram", "shadowShaderProgram", "shadowMapTexture", "shadowMapFBO"}

\* these calls leave the framebuffer, the camera, the renderers and the
\* values alone
OnlyGL == UNCHANGED <<fbVars, camVars, drawVars, meshVars, twoDVars, evaluated>>

\* a constructor of steps that fails at the step failing, or at none: the
\* exception leaves main through its catch, which returns 1
Construct(platform, steps, failing, pcAfter) ==
    /\ app.pc = "start"
    /\ IF failing = 0
       THEN app' = [app EXCEPT !.pc = pcAfter, !.platform = platform,
                               !.held = AcquiredBefore(steps, Len(steps) + 1)]
       ELSE app' = [app EXCEPT !.pc = "exited", !.platform = platform,
                               !.failed = {steps[failing]},
                               !.held = AcquiredBefore(steps, failing)
                                            \ ReleasedOnFailure(steps[failing]),
                               !.exitCode = 1]
    /\ UNCHANGED rgl
    /\ OnlyGL

\* WindowGL::WindowGL(title, width, height), called by main
NewWindowGL(failing) ==
    /\ app.platform = "none"
    /\ Construct("WindowGL", WindowGLSteps, failing, "window")

\* Window::Window(title, width, height)
NewWindow(failing) ==
    /\ app.platform = "none"
    /\ Construct("Window", WindowSteps, failing, "loop")

\* RendererGL::RendererGL(): checkShaderCompilation and checkProgramLinking
\* print the failed checks and return
NewRendererGL(failures) ==
    /\ app.pc = "window"
    /\ app' = [app EXCEPT !.pc = "loop", !.failed = failures,
                          !.held = @ \cup RendererGLObjects]
    /\ rgl' = [rgl EXCEPT !.alive = TRUE]
    /\ OnlyGL

\* an upload on every call
NeedsUploadAlways(cache, m) == TRUE

\* uploadedMeshes.find(&mesh) == uploadedMeshes.end()
NeedsUpload(cache, m) == m \notin DOMAIN cache

\* void uploadMesh(const Mesh& mesh): glGenVertexArrays and glGenBuffers
\* hand out names not in use
UploadMesh(r, m) ==
    LET gpuMesh == [vao |-> r.next, vbo |-> r.next + 1, ibo |-> r.next + 2,
                    indexCount |-> app.sizes[m]]
    IN  [r EXCEPT !.uploadedMeshes =
                      [a \in DOMAIN r.uploadedMeshes \cup {m} |->
                          IF a = m THEN gpuMesh ELSE r.uploadedMeshes[a]],
                  !.next = @ + 3,
                  !.live = @ \cup {r.next, r.next + 1, r.next + 2},
                  !.uploads = Append(@, [mesh |-> m, gpuMesh |-> gpuMesh])]

\* the upload check and the draw call that drawMesh and renderShadowMesh share
DrawCached(op, m) ==
    /\ app.pc = "loop"
    /\ rgl.alive
    /\ rgl.calls < MaxGLCalls
    /\ LET r == IF NeedsUpload(rgl.uploadedMeshes, m) THEN UploadMesh(rgl, m) ELSE rgl
           gpuMesh == r.uploadedMeshes[m]
       IN  rgl' = [r EXCEPT !.calls = @ + 1,
                            !.last = [op |-> op, mesh |-> m, vao |-> gpuMesh.vao,
                                      indexCount |-> gpuMesh.indexCount]]
    /\ UNCHANGED app
    /\ OnlyGL

\* void RendererGL::drawMesh(mesh, modelMatrix, camera, lightSpaceMatrix, emissive)
GLDrawMesh(m) ==
    /\ app.platform = "WindowGL"
    /\ DrawCached("drawMesh", m)

\* void RendererGL::renderShadowMesh(mesh, modelMatrix, lightSpaceMatrix)
RenderShadowMesh(m) ==
    /\ app.platform = "WindowGL"
    /\ DrawCached("renderShadowMesh", m)

\* the program changes the index vector of a Mesh, as addTriangle does
ChangeMesh(m, n) ==
    /\ app.pc = "loop"
    /\ rgl.alive
    /\ rgl.calls < MaxGLCalls
    /\ app.sizes[m] # n
    /\ app' = [app EXCEPT !.sizes[m] = n]
    /\ rgl' = [rgl EXCEPT !.calls = @ + 1]
    /\ OnlyGL

\* window.swapBuffers(), or window.display(fb): a frame is shown
ShowFrame ==
    /\ app.pc = "loop"
    /\ app.frames < MaxFrames
    /\ app' = [app EXCEPT !.frames = @ + 1]
    /\ UNCHANGED rgl
    /\ OnlyGL

\* the names ~RendererGL passes to glDelete*, one entry after the other
RECURSIVE DeletedNames(_, _)
DeletedNames(cache, addresses) ==
    IF addresses = {} THEN <<>>
    ELSE LET m == CHOOSE a \in addresses : \A b \in addresses : a <= b
         IN  <<cache[m].vao, cache[m].vbo, cache[m].ibo>>
                 \o DeletedNames(cache, addresses \ {m})

\* pollEvents() returns false: main leaves its try block, ~RendererGL and
\* ~WindowGL (or ~Window) run, and main returns 0
Quit ==
    /\ app.pc = "loop"
    /\ LET names == DeletedNames(rgl.uploadedMeshes, DOMAIN rgl.uploadedMeshes)
       IN  rgl' = [rgl EXCEPT !.alive = FALSE,
                              !.deleted = @ \o names,
                              !.live = @ \ { names[i] : i \in DOMAIN names }]
    /\ app' = [app EXCEPT !.pc = "exited", !.held = {}, !.exitCode = 0]
    /\ OnlyGL

\* main: the constructors, the calls of the render loop, the exit
GLNext ==
    \/ \E failing \in 0 .. Len(WindowGLSteps) : NewWindowGL(failing)
    \/ \E failing \in 0 .. Len(WindowSteps) : NewWindow(failing)
    \/ \E failures \in ShaderFailures : NewRendererGL(failures)
    \/ \E m \in MeshAddresses : GLDrawMesh(m)
    \/ \E m \in MeshAddresses : RenderShadowMesh(m)
    \/ \E m \in MeshAddresses, n \in IndexCounts : ChangeMesh(m, n)
    \/ ShowFrame
    \/ Quit

-----------------------------------------------------------------------------
(* Specifications *)

\* Camera(): every argument at its default
DefaultCamera ==
    CameraInit(Vec3(0, 0, 5 * Scale), Vec3(0, 0, 0), Vec3(0, Scale, 0), 60 * Scale,
               RoundDiv(16 * Scale, 9), RoundDiv(Scale, 10), 100 * Scale)

\* where a camera aimed at the origin is constructed: the Positions, and
\* a point straight below the origin
Eyes == Positions \cup { Vec3(0, 0 - 2 * Scale, 0) }

\* Camera(position, target): the other arguments at their defaults
NewCamera ==
    \E pos \in Eyes :
        CameraInit(pos, Vec3(0, 0, 0), Vec3(0, Scale, 0), 60 * Scale,
                   RoundDiv(16 * Scale, 9), RoundDiv(Scale, 10), 100 * Scale)

\* a Framebuffer and the calls made on it
\* a cleared Framebuffer; the camera and the renderer stay as constructed
InitFb == FbInit /\ DefaultCamera /\ DrawInit /\ RestInit
SpecFb == InitFb /\ [][FramebufferNext]_vars

\* a Camera and the calls made on it
InitCamera == FbInit /\ NewCamera /\ DrawInit /\ RestInit
SpecCamera == InitCamera /\ [][CameraNext]_vars

\* the camera drawMesh is given: at (0, 0, 2) looking at the origin, with a
\* 90 degree field of view, aspect 1, near 1 and far 3
DrawCamera ==
    CameraInit(Vec3(0, 0, 2 * Scale), Vec3(0, 0, 0), Vec3(0, Scale, 0), 90 * Scale,
               Scale, Scale, 3 * Scale)

\* one drawMesh call on a cleared framebuffer
InitDraw == FbInit /\ DrawCamera /\ DrawInit /\ RestInit
SpecDraw == InitDraw /\ [][DrawMeshNext]_vars

\* the steps of a call that has begun
DrawMeshStep == ForTriangle \/ ClipTest \/ CullTest \/ ScanStep \/ LineStep

\* a call that has begun and not returned; in each of these positions one
\* step of DrawMeshStep can be taken, and it changes pc, scan or line
Running == pc \in {"loop", "clip", "cull", "scan", "line"}

\* weak fairness of the steps of the call, WF_vars(DrawMeshStep), with
\* Running written for ENABLED <<DrawMeshStep>>_vars
RunsOn == []<>(~Running) \/ []<><<DrawMeshStep>>_vars

\* a Mesh and the calls that build it
InitMesh == FbInit /\ DefaultCamera /\ DrawInit /\ RestInit
SpecMesh == InitMesh /\ [][MeshNext]_vars

\* one 2D call of a Renderer on a cleared framebuffer
Init2D == FbInit /\ DefaultCamera /\ DrawInit /\ RestInit
Spec2D == Init2D /\ [][Renderer2DNext]_vars

\* the iterations of a 2D call that has begun
Step2D == DrawLineLoop \/ FillFlatBottomLoop

\* a 2D call inside its loop; there an iteration can be taken, and it
\* lengthens visited or divisors
Running2D == call2D # NoCall /\ call2D.at = "loop"

\* the same call run to its end: weak fairness of its iterations,
\* WF_vars(Step2D), with Running2D written for ENABLED <<Step2D>>_vars
Fair2D == Spec2D /\ ([]<>(~Running2D) \/ []<><<Step2D>>_vars)

\* one drawCircle or drawFilledCircle call on a cleared framebuffer
InitCircle == FbInit /\ DefaultCamera /\ DrawInit /\ RestInit
SpecCircle == InitCircle /\ [][CircleNext]_vars

\* the iterations of a circle call that has begun
StepCircle == DrawCircleLoop \/ DrawFilledCircleLoop

\* the same call run to its end: weak fairness of its iterations,
\* WF_vars(StepCircle), with Running2D written for ENABLED <<StepCircle>>_vars
FairCircle == SpecCircle /\ ([]<>(~Running2D) \/ []<><<StepCircle>>_vars)

\* main from its first statement to its return, with a Window or a WindowGL
InitGL == FbInit /\ DefaultCamera /\ DrawInit /\ RestInit
SpecGL == InitGL /\ [][GLNext]_vars

\* no draw call has begun: the program is still preparing the framebuffer
NothingDrawn == call2D = NoCall /\ pc = "idle"

\* the pixels the preparing calls write: a corner, and with setPixelDepth
\* also the opposite corner, at depth 1
LayerPixels == { <<0, 0>>, <<Width - 1, Height - 1>> }

\* the draw calls made on the prepared framebuffer: lines, a triangle and
\* circles of the 2D Renderer, and meshes of one triangle
LayerLines == { <<0 - 1, 0, Width, 1>>, <<0, 0, 1, 1>>, <<0, Height - 1, Width - 1, Height - 1>> }
LayerCorners == << Vec2(0, 0), Vec2(2 * Scale, 0), Vec2(0, 2 * Scale) >>
LayerCentres == { <<0, 0>>, <<1, 1>> }
LayerRadii == {0, 1}
LayerMeshes == { MeshOf(<<t>>) : t \in {FrontCW, Partial, OffCW} }

\* a frame: Framebuffer calls that prepare the colour and depth buffers,
\* then one draw call of the 2D Renderer or of Renderer3D on top of them
LayersNext ==
    \/ NothingDrawn /\ SetPixel(0, 0, RED)
    \/ NothingDrawn /\ Clear(BLACK)
    \/ NothingDrawn /\ ClearDepth
    \/ NothingDrawn /\ ClearAll(BLACK)
    \/ NothingDrawn /\ \E p \in LayerPixels : SetPixelDepth(p[1], p[2], 1, GREEN)
    \/ pc = "idle" /\ \E l \in LayerLines : DrawLine(l[1], l[2], l[3], l[4], WHITE)
    \/ DrawLineLoop
    \/ pc = "idle" /\ DrawTriangle(LayerCorners[1], LayerCorners[2], LayerCorners[3], WHITE)
    \/ FillFlatBottomLoop
    \/ pc = "idle" /\ \E c \in LayerCentres, radius \in LayerRadii :
                          DrawCircle(c[1], c[2], radius, WHITE)
    \/ DrawCircleLoop
    \/ pc = "idle" /\ \E c \in LayerCentres, radius \in LayerRadii :
                          DrawFilledCircle(c[1], c[2], radius, WHITE)
    \/ DrawFilledCircleLoop
    \/ call2D = NoCall /\ \E m \in LayerMeshes, wf \in BOOLEAN :
                              DrawMeshBegin(m, Identity4, wf)
    \/ ForTriangle
    \/ ClipTest
    \/ CullTest
    \/ ScanStep
    \/ LineStep

InitLayers == FbInit /\ DrawCamera /\ DrawInit /\ RestInit
SpecLayers == InitLayers /\ [][LayersNext]_vars

\* a call on values leaves every object alone
OnlyValues == UNCHANGED <<fbVars, camVars, drawVars, meshVars, twoDVars, app, rgl>>

\* Color::blend(fg, bg) called once
BlendCall(fg, bg) ==
    /\ evaluated = NoEval
    /\ evaluated' = [op |-> "blend", fg |-> fg, bg |-> bg, result |-> Blend(fg, bg)]
    /\ OnlyValues

ColorNext == \E fg \in Foregrounds, bg \in Backgrounds : BlendCall(fg, bg)

\* A * B called once
Multiply(A, B) ==
    /\ evaluated = NoEval
    /\ evaluated' = [op |-> "multiply", a |-> A, b |-> B, result |-> MatMul(A, B)]
    /\ OnlyValues

\* (A * B) * v and A * (B * v) called once
Compose(A, B, v) ==
    /\ evaluated = NoEval
    /\ evaluated' = [op |-> "compose", a |-> A, b |-> B, v |-> v,
                     product |-> MatMul(A, B),
                     together |-> MatVec(MatMul(A, B), v),
                     inTurn |-> MatVec(A, MatVec(B, v))]
    /\ OnlyValues

\* translate(t).transformPoint(v) and translate(t).transformDirection(v) called once
TranslateBoth(t, v) ==
    /\ evaluated = NoEval
    /\ evaluated' = [op |-> "translate", t |-> t, v |-> v,
                     point |-> TransformPoint(Translate(t), v),
                     direction |-> TransformDirection(Translate(t), v)]
    /\ OnlyValues

Mat4Next ==
    \/ \E A \in Matrices, B \in Matrices : Multiply(A, B)
    \/ \E A \in Matrices, B \in Matrices, v \in Vectors3, w \in Weights4 :
           Compose(A, B, Vec4(v, w))
    \/ \E t \in Vectors3, v \in Vectors3 : TranslateBoth(t, v)

InitColor == FbInit /\ DefaultCamera /\ DrawInit /\ RestInit
SpecColor == InitColor /\ [][ColorNext]_vars

\* one call on Mat4 values
InitMat4 == FbInit /\ DefaultCamera /\ DrawInit /\ RestInit
SpecMat4 == InitMat4 /\ [][Mat4Next]_vars

\* the same call run to its end: the thread that called drawMesh keeps
\* executing it, so a step of the call that can be taken is taken
FairDraw == SpecDraw /\ RunsOn

-----------------------------------------------------------------------------
(* Properties of the Framebuffer *)

InBounds(p) == p[1] >= 0 /\ p[1] < Width /\ p[2] >= 0 /\ p[2] < Height

\* the pixel a probe inside the buffer addresses
IndexOf(p) == p[2] * Width + p[1]

\* the history of the pixel of probe p grew by the submission s, as it does
\* in every setPixelDepth(p, s) inside the buffer
Appended(p, s) == submitted'[IndexOf(p)] = Append(submitted[IndexOf(p)], s)

OthersUnchanged(i) ==
    \A j \in BufferIndices :
        j # i => pixels'[j] = pixels[j] /\ depthBuffer'[j] = depthBuffer[j]

\* C4: setPixelDepth on a pixel inside the buffer writes colour and depth and
\* returns true exactly when the depth is strictly less than the stored
\* depth; otherwise (equal or greater) it returns false and leaves the
\* pixel as it was; no other pixel changes in either case.
C4_TestAndWrite ==
    [][ \A p \in Probes, s \in Submissions :
          (InBounds(p) /\ Appended(p, s) /\ SetPixelDepth(p[1], p[2], s[1], s[2])) =>
             /\ fbRet'.kind = "bool"
             /\ fbRet'.flag = (s[1] < depthBuffer[IndexOf(p)])
             /\ (s[1] < depthBuffer[IndexOf(p)]) =>
                   /\ pixels'[IndexOf(p)] = s[2]
                   /\ depthBuffer'[IndexOf(p)] = s[1]
             /\ (s[1] >= depthBuffer[IndexOf(p)]) =>
                   /\ pixels'[IndexOf(p)] = pixels[IndexOf(p)]
                   /\ depthBuffer'[IndexOf(p)] = depthBuffer[IndexOf(p)]
             /\ OthersUnchanged(IndexOf(p)) ]_vars

\* a second write of the same depth was refused and the first one kept
C4_Witness ==
    \E i \in BufferIndices :
        /\ submitted[i] = << <<1, GREEN>>, <<1, RED>> >>
        /\ fbRet.kind = "bool" /\ fbRet.flag = FALSE
        /\ pixels[i] = GREEN
        /\ depthBuffer[i] = 1

\* the least depth of a history, +infinity for the empty one
RECURSIVE MinDepth(_)
MinDepth(h) ==
    IF h = <<>> THEN PosInf
    ELSE LET rest == MinDepth(Tail(h))
         IN  IF Head(h)[1] < rest THEN Head(h)[1] ELSE rest

\* the colour of the earliest entry of a non-empty history that has its
\* least depth
EarliestMinColor(h) ==
    LET k == CHOOSE n \in 1..Len(h) :
                 /\ h[n][1] = MinDepth(h)
                 /\ \A m \in 1..(n - 1) : h[m][1] # MinDepth(h)
    IN  h[k][2]

\* the depth buffer grows only when it is cleared as a whole
DepthNeverIncreases ==
    \A i \in BufferIndices :
        depthBuffer'[i] > depthBuffer[i] =>
            \A j \in BufferIndices : depthBuffer'[j] = PosInf /\ submitted'[j] = <<>>

\* a depth-tested write of a larger depth than the stored one changes nothing
LargerIsNoOp ==
    \A p \in Probes, s \in Submissions :
        (InBounds(p) /\ Appended(p, s) /\ SetPixelDepth(p[1], p[2], s[1], s[2])
           /\ s[1] > depthBuffer[IndexOf(p)]) =>
              pixels' = pixels /\ depthBuffer' = depthBuffer

C6_OutOfBounds ==
    [][ /\ fbTouched' \subseteq 0 .. (Width * Height - 1)
        /\ \A p \in Probes :
             ~InBounds(p) =>
               /\ \A c \in WriteColors :
                    (fbRet'.kind = "void" /\ SetPixel(p[1], p[2], c)) =>
                        pixels' = pixels /\ depthBuffer' = depthBuffer
               /\ \A s \in Submissions :
                    (fbRet'.kind = "bool" /\ SetPixelDepth(p[1], p[2], s[1], s[2])) =>
                        pixels' = pixels /\ depthBuffer' = depthBuffer
                        /\ fbRet'.flag = FALSE
               /\ \A d \in Depths :
                    (fbRet'.kind = "bool" /\ DepthTest(p[1], p[2], d)) =>
                        fbRet'.flag = FALSE
               /\ (fbRet'.kind = "Color" /\ GetPixel(p[1], p[2])) =>
                    fbRet'.color = <<0, 0, 0, 255>>
               /\ (fbRet'.kind = "float" /\ GetDepth(p[1], p[2])) =>
                    fbRet'.depth = PosInf ]_vars

\* a read outside a buffer that holds a written pixel returned the sentinel
C6_Witness ==
    /\ fbTouched = {}
    /\ fbRet.kind = "float" /\ fbRet.depth = PosInf
    /\ \E i \in BufferIndices : depthBuffer[i] # PosInf

\* C7: clearAll(color) leaves every pixel at the fill colour and every
\* depth at +infinity; a new Framebuffer is all black with all depths
\* +infinity, as after clearAll(); and the first depth-tested write of a
\* finite depth to a pixel since construction or a clearAll succeeds.
C7_ClearAll ==
    /\ \A i \in BufferIndices : pixels[i] = <<0, 0, 0, 255>> /\ depthBuffer[i] = PosInf
    /\ [][ /\ \A c \in FillColors :
                ClearAll(c) =>
                    \A i \in BufferIndices : pixels'[i] = c /\ depthBuffer'[i] = PosInf
           /\ \A p \in Probes, s \in Submissions :
                (InBounds(p) /\ submitted[IndexOf(p)] = <<>> /\ s[1] # PosInf
                   /\ Appended(p, s) /\ SetPixelDepth(p[1], p[2], s[1], s[2])) =>
                      /\ fbRet'.kind = "bool" /\ fbRet'.flag = TRUE
                      /\ pixels'[IndexOf(p)] = s[2]
                      /\ depthBuffer'[IndexOf(p)] = s[1] ]_vars

\* a buffer that was drawn into, cleared with a colour, and written again
C7_Witness ==
    \E i, j \in BufferIndices :
        /\ i # j
        /\ pixels[i] = RED /\ depthBuffer[i] = PosInf /\ submitted[i] = <<>>
        /\ submitted[j] = << <<1, GREEN>> >> /\ pixels[j] = GREEN
        /\ fbRet.kind = "bool" /\ fbRet.flag = TRUE

-----------------------------------------------------------------------------
(* Properties of the Camera *)

\* the matrices the current fields of the camera call for
CurrentView == LookAt(position, target, up)
CurrentProjection == Perspective(fov, aspect, nearPlane, farPlane)

\* a clean flag means the cached matrix is the matrix of the current fields
CacheValid ==
    /\ ~viewDirty => viewMatrix = CurrentView
    /\ ~projectionDirty => projectionMatrix = CurrentProjection

\* C1: under every interleaving of setters, movement and rotation calls and
\* matrix getters, a clear viewDirty means the cached view matrix is
\* lookAt(position, target, up) and a clear projectionDirty means the cached
\* projection matrix is perspective(fov, aspect, near, far) of the current
\* fields; getViewMatrix and getProjectionMatrix return the matrix of the
\* current camera state.
C1_CacheInvariant ==
    /\ []CacheValid
    /\ [][ /\ GetViewMatrix => viewMatrix' = LookAt(position', target', up')
           /\ GetProjectionMatrix =>
                  projectionMatrix' = Perspective(fov', aspect', nearPlane', farPlane')
       ]_vars

\* both matrices are cached and clean after the camera was moved and retargeted
C1_Witness ==
    /\ calls = 2
    /\ ~viewDirty
    /\ ~projectionDirty
    /\ position = Vec3(2 * Scale, Scale, 0)
    /\ target = Vec3(0, Scale, 0 - Scale)
    /\ viewMatrix = CurrentView
    /\ projectionMatrix = CurrentProjection

\* world points handed to worldToScreen
WorldPoints == { Vec3(Scale, Scale, 0), Vec3(0, 0, 0) }

\* C2: every operation that reads the matrices observes all earlier setter,
\* movement and rotation calls, even when no matrix getter was called in
\* between; for worldToScreen this says that the point it returns is the one
\* the current fields of the camera call for.
C2_ReadAfterWrite ==
    \A p \in WorldPoints :
        WorldToScreen(p, Width, Height) =
            ScreenPoint(CurrentProjection, CurrentView, p, Width, Height)

\* the calls that change position, target or up
ViewMutation ==
    \/ \E pos \in Positions : SetPosition(pos)
    \/ \E tgt \in Targets : SetTarget(tgt)
    \/ \E u \in Ups : SetUp(u)
    \/ \E d \in Distances : MoveForward(d) \/ MoveRight(d) \/ MoveUp(d)
    \/ \E a \in Angles :
          \/ OrbitAroundTarget(a, 0 - RoundDiv(a, 2))
          \/ LookAround(a, RoundDiv(a, 2))
          \/ RotateYaw(a)
          \/ RotatePitch(a)

\* the calls that change fov, aspect or the clip planes
ProjectionMutation ==
    \/ \E f \in FovDegrees : SetFOV(f)
    \/ \E a \in Aspects : SetAspectRatio(a)
    \/ \E c \in ClipPlanes : SetClipPlanes(c[1], c[2])

\* C3: both flags are true right after construction; a position/target/up
\* mutation sets viewDirty and leaves projectionDirty and the cached
\* projection matrix alone; a fov/aspect/clip-plane mutation sets
\* projectionDirty and leaves viewDirty and the cached view matrix alone;
\* getViewMatrix clears only viewDirty, getProjectionMatrix clears only
\* projectionDirty, and a getter called with its flag clear keeps the
\* cached matrix.
C3_DirtyFlags ==
    /\ (viewDirty = TRUE /\ projectionDirty = TRUE)
    /\ [][ /\ ViewMutation =>
                /\ viewDirty'
                /\ UNCHANGED <<projectionDirty, projectionMatrix>>
           /\ ProjectionMutation =>
                /\ projectionDirty'
                /\ UNCHANGED <<viewDirty, viewMatrix>>
           /\ GetViewMatrix =>
                /\ ~viewDirty'
                /\ UNCHANGED <<projectionDirty, projectionMatrix>>
                /\ ~viewDirty => UNCHANGED viewMatrix
           /\ GetProjectionMatrix =>
                /\ ~projectionDirty'
                /\ UNCHANGED <<viewDirty, viewMatrix>>
                /\ ~projectionDirty => UNCHANGED projectionMatrix
       ]_vars

\* the view matrix was computed and then invalidated by a mutation, while the
\* projection matrix, invalidated and computed again, stays clean
C3_Witness ==
    /\ calls = 2
    /\ viewDirty
    /\ ~projectionDirty
    /\ viewMatrix # Identity4
    /\ viewMatrix # CurrentView
    /\ projectionMatrix = CurrentProjection
    /\ aspect = 2 * Scale

-----------------------------------------------------------------------------
(* Properties of drawMesh *)

\* projection * view * model of the camera and model matrix in use
CurrentMvp == MatMul(MatMul(CurrentProjection, CurrentView), modelMatrix)

\* once drawMesh has started, mvp is the product for the current camera
MvpIsCurrent == pc # "idle" => mvp = CurrentMvp

\* the k-th triangle drawMesh has finished with (k = 1 is the first), its
\* clip-space, NDC and screen-space vertices, and its screen-space cross product
TriangleOf(k) == GetTriangle(mesh, k - 1)
ClipOf(k) == ClipVertices(mvp, TriangleOf(k))
NdcOf(k) == NdcVertices(ClipOf(k))
ScreenOf(k) == ScreenVertices(NdcOf(k))
CrossOf(k) == ScreenCross(ScreenOf(k))

\* the clip-space w of vertex v of triangle k
ClipW(k, v) == ClipOf(k)[v][4]

\* in filled mode: the centre of some pixel of the framebuffer lies in the
\* triangle, which is not degenerate, at a depth less than the depth stored
\* there before the triangle was drawn
CoversVisiblePixel(k) ==
    \E x \in 0 .. Width - 1, y \in 0 .. Height - 1 :
        /\ ~IsDegenerate(CrossOf(k))
        /\ IsInside(ScreenOf(k), PixelCentre(x, y))
        /\ InterpolatedDepth(ScreenOf(k), <<NdcOf(k)[1][3], NdcOf(k)[2][3], NdcOf(k)[3][3]>>,
                             PixelCentre(x, y))
             < trace[k].before[PixelIndex(x, y)]

\* in wireframe mode: some vertex, truncated to int, is a pixel of the framebuffer
HasVertexOnScreen(k) ==
    \E v \in 1 .. 3 :
        ~OutOfBounds(ToInt(ScreenOf(k)[v][1]), ToInt(ScreenOf(k)[v][2]))

\* a triangle with a cross product <= 0 draws no pixel
ClockwiseDrawsNothing ==
    \A k \in 1 .. Len(trace) :
        CrossOf(k) <= 0 => trace[k].pixels = {} /\ trace[k].depths = {}

NdcCross(k) ==
    LET n == NdcOf(k)
    IN  Cross2(Vec2(n[2][1] - n[1][1], n[2][2] - n[1][2]),
               Vec2(n[3][1] - n[1][1], n[3][2] - n[1][2]))

\* C9: a triangle entirely in front of the camera that appears
\* counter-clockwise from the camera (counter-clockwise in NDC) is not
\* discarded by the backface cull, and one that appears clockwise is
\* discarded; the Y flip of the viewport mapping does not invert this.
C9_FrontFaceConvention ==
    \A k \in 1 .. Len(trace) :
        (\A v \in 1 .. 3 : ClipW(k, v) > 0) =>
            /\ NdcCross(k) > 0 => trace[k].outcome # "culled"
            /\ NdcCross(k) < 0 => trace[k].outcome = "culled"

\* what the trivial reject leaves behind for every finished triangle
RejectOutcome ==
    /\ MvpIsCurrent
    /\ \A k \in 1 .. Len(trace) :
           IF \A v \in 1 .. 3 : ClipW(k, v) <= 0
           THEN /\ trace[k].outcome = "rejected"
                /\ trace[k].pixels = {}
                /\ trace[k].depths = {}
           ELSE /\ trace[k].outcome \in {"culled", "drawn"}
                /\ trace[k].tri.clipV = ClipOf(k)
                /\ trace[k].tri.ndcV = NdcOf(k)
                /\ trace[k].tri.screenV = ScreenOf(k)
                /\ trace[k].tri.cross = CrossOf(k)

\* C10: a triangle whose three clip-space w are all <= 0 is skipped and
\* writes no pixel and no depth; a triangle with some w > 0 is not rejected:
\* its three vertices go on, unclipped, to the perspective divide, the
\* viewport mapping and the cull.
C10_TrivialReject ==
    /\ []RejectOutcome
    /\ [][ pc = "clip" =>
             IF \A v \in 1 .. 3 : tri.clipV[v][4] <= 0
             THEN /\ pc' = "loop"
                  /\ triangleIndex' = triangleIndex + 1
                  /\ UNCHANGED <<pixels, depthBuffer>>
             ELSE /\ pc' = "cull"
                  /\ triangleIndex' = triangleIndex
                  /\ tri'.clipV = tri.clipV
                  /\ \A v \in 1 .. 3 : tri'.ndcV[v] = ToVec3(tri.clipV[v])
                  /\ UNCHANGED <<pixels, depthBuffer>>
       ]_vars

\* a mesh of a triangle behind the camera and a triangle with one vertex
\* behind it was drawn: the first was skipped, the second drew pixels
C10_Witness ==
    /\ pc = "done"
    /\ Len(trace) = 2
    /\ \A v \in 1 .. 3 : ClipW(1, v) <= 0
    /\ trace[1].outcome = "rejected"
    /\ \E v \in 1 .. 3 : ClipW(2, v) <= 0
    /\ \E v \in 1 .. 3 : ClipW(2, v) > 0
    /\ trace[2].outcome = "drawn"
    /\ trace[2].pixels # {}

-----------------------------------------------------------------------------
(* Properties of the loop of drawMesh *)

\* the triangles finished so far are those of index 0, 1, ... in this order,
\* each once, and each was read from the mesh at its index
ProcessedInOrder ==
    pc # "idle" =>
        /\ triangleIndex <= GetTriangleCount(mesh)
        /\ Len(trace) = triangleIndex
        /\ \A k \in 1 .. Len(trace) :
              /\ trace[k].index = k - 1
              /\ trace[k].tri.clipV = ClipVertices(mvp, GetTriangle(mesh, k - 1))
        /\ pc = "done" => Len(trace) = GetTriangleCount(mesh)

\* a step of the call leaves the mesh alone and moves the loop index by at
\* most one, whatever became of the triangle
LoopAdvances ==
    pc # "idle" =>
        /\ mesh' = mesh
        /\ triangleIndex' \in {triangleIndex, triangleIndex + 1}
        /\ pc' = "done" => triangleIndex = GetTriangleCount(mesh)

\* C11: drawMesh terminates and processes every triangle of the mesh exactly
\* once, in index order 0 .. getTriangleCount() - 1; a rejected, culled or
\* degenerate triangle neither stops nor skips the later ones, and the mesh
\* is not modified.
C11_EveryTriangleOnce ==
    /\ []ProcessedInOrder
    /\ [][LoopAdvances]_vars
    /\ (pc = "loop") ~> (pc = "done")

\* the call ended on a mesh whose first triangle was culled for its zero
\* area and whose second triangle drew pixels
C11_Witness ==
    /\ pc = "done"
    /\ GetTriangleCount(mesh) = 2
    /\ Len(trace) = 2
    /\ trace[1].outcome = "culled"
    /\ trace[1].tri.cross = 0
    /\ trace[2].index = 1
    /\ trace[2].outcome = "drawn"
    /\ trace[2].pixels # {}

-----------------------------------------------------------------------------
(* Properties of the Mesh generators *)

\* the mesh is the result of the named generator, as returned
MadeBy(by) == built.by = by /\ built.doubled = 0

\* the vertices come in groups of 4 that share a normal, and the 6 groups
\* have 6 different normals
FourPerFace ==
    /\ \A f \in 0 .. 5 : \A j \in 1 .. 4 :
           mesh.vertices[4 * f + j].normal = mesh.vertices[4 * f + 1].normal
    /\ Cardinality({ mesh.vertices[4 * f + 1].normal : f \in 0 .. 5 }) = 6

\* C12: createCube(size) yields exactly 24 vertices (4 per face, 6 faces) and
\* 36 indices, and getTriangleCount() returns 12; for every mesh
\* getTriangleCount() is the number of complete index triples.
C12_CubeCounts ==
    /\ MadeBy("createCube") =>
           /\ Len(mesh.vertices) = 24
           /\ FourPerFace
           /\ Len(mesh.indices) = 36
           /\ GetTriangleCount(mesh) = 12
    /\ 3 * GetTriangleCount(mesh) <= Len(mesh.indices)
    /\ Len(mesh.indices) < 3 * GetTriangleCount(mesh) + 3

\* the unit cube was created
C12_Witness ==
    /\ MadeBy("createCube")
    /\ built.size = Scale
    /\ Len(mesh.vertices) = 24
    /\ GetTriangleCount(mesh) = 12

\* what a makeDoubleSided call makes of a mesh of N vertices and M indices
DoubledFrom(N, M) ==
    /\ Len(mesh'.vertices) = 2 * N
    /\ Len(mesh'.indices) = 2 * M
    /\ \A k \in 1 .. N :
           /\ mesh'.vertices[k] = mesh.vertices[k]
           /\ mesh'.vertices[N + k].position = mesh.vertices[k].position
           /\ mesh'.vertices[N + k].color = mesh.vertices[k].color
           /\ mesh'.vertices[N + k].normal = VNeg(mesh.vertices[k].normal)
    /\ \A k \in 1 .. M : mesh'.indices[k] = mesh.indices[k]
    /\ \A t \in 0 .. (M \div 3) - 1 :
           /\ mesh'.indices[M + 3 * t + 1] = mesh.indices[3 * t + 1] + N
           /\ mesh'.indices[M + 3 * t + 2] = mesh.indices[3 * t + 3] + N
           /\ mesh'.indices[M + 3 * t + 3] = mesh.indices[3 * t + 2] + N

\* C13: makeDoubleSided() on a mesh with N vertices and M indices yields
\* exactly 2N vertices and 2M indices: the first N vertices and first M
\* indices are unchanged, vertex N+i is vertex i with its normal inverted,
\* and each triple (a, b, c) is emitted again as (a+N, c+N, b+N).
C13_DoubleSided ==
    [][ built'.doubled = built.doubled + 1 =>
            DoubledFrom(Len(mesh.vertices), Len(mesh.indices)) ]_vars

\* a cube was made double-sided, as the floor and the walls of main are
C13_Witness ==
    /\ built.by = "createCube"
    /\ built.doubled = 1
    /\ Len(mesh.vertices) = 48
    /\ Len(mesh.indices) = 72
    /\ mesh.indices[37] = 24 /\ mesh.indices[38] = 26 /\ mesh.indices[39] = 25

\* cross(v1 - v0, v2 - v0) of the positions of a triangle
GeometricNormal(v) ==
    Cross3(VSub(v[2].position, v[1].position), VSub(v[3].position, v[1].position))

\* the triangle is counter-clockwise seen from outside a solid that contains
\* the origin: its geometric normal points away from the origin, and to the
\* side of the stored normal of its first vertex
CounterClockwiseFromOutside(v) ==
    /\ Dot3(GeometricNormal(v), v[1].normal) > 0
    /\ Dot3(GeometricNormal(v),
            VAdd(v[1].position, VAdd(v[2].position, v[3].position))) > 0

\* C14: every non-degenerate triangle (v0, v1, v2) produced by createCube,
\* createPyramid and createSphere is counter-clockwise when viewed from
\* outside the solid: its geometric normal cross(v1-v0, v2-v0) points to the
\* same side as the outward stored vertex normal; so all faces of one mesh
\* have the same orientation.
C14_GeneratorWinding ==
    (MadeBy("createCube") \/ MadeBy("createPyramid") \/ MadeBy("createSphere")) =>
        \A t \in 0 .. GetTriangleCount(mesh) - 1 :
            GeometricNormal(GetTriangle(mesh, t)) # <<0, 0, 0>> =>
                CounterClockwiseFromOutside(GetTriangle(mesh, t))

\* the generators of Mesh
Generators ==
    {"createCube", "createPyramid", "createSphere", "createCornerCube", "createLetterN"}

\* getTriangle(t, v0, v1, v2) reads three existing indices and three
\* existing vertices
ReadsExisting(m, t) ==
    \A j \in 1 .. 3 :
        /\ 3 * t + j \in DOMAIN m.indices
        /\ m.indices[3 * t + j] + 1 \in DOMAIN m.vertices

\* C15: every mesh returned by createCube, createPyramid, createSphere
\* (segments >= 1, rings >= 1), createCornerCube and createLetterN has an
\* index count that is a multiple of 3 and every index is less than
\* vertices.size(), so getTriangle(i, ...) for every i < getTriangleCount()
\* reads only existing vertices.
C15_IndexInvariant ==
    (built.by \in Generators /\ built.doubled = 0) =>
        /\ Len(mesh.indices) % 3 = 0
        /\ \A k \in 1 .. Len(mesh.indices) :
               mesh.indices[k] >= 0 /\ mesh.indices[k] < Len(mesh.vertices)
        /\ \A t \in 0 .. GetTriangleCount(mesh) - 1 : ReadsExisting(mesh, t)

\* a letter N was generated; its last triangle reads the last vertex
C15_Witness ==
    /\ MadeBy("createLetterN")
    /\ Len(mesh.vertices) = 60
    /\ Len(mesh.indices) = 120
    /\ GetTriangleCount(mesh) = 40
    /\ GetTriangle(mesh, 39)[3] = mesh.vertices[60]

\* the vertex of the mesh at (ring, seg) of a grid of S + 1 vertices per ring
GridVertex(S, ring, seg) == mesh.vertices[ring * (S + 1) + seg + 1]

\* the six indices of the mesh for the quad (ring, seg) of a grid of S quads per ring
QuadIndices(S, ring, seg) ==
    [j \in 1 .. 6 |-> mesh.indices[6 * (ring * S + seg) + j]]

\* the first and the last vertex of each ring are two vertices of the mesh, at
\* the same height and, to the precision of the sine of 2 pi, at the same place
SeamDuplicated(S, R) ==
    \A ring \in 0 .. R :
        /\ ring * (S + 1) + 1 # ring * (S + 1) + S + 1
        /\ ring * (S + 1) + S + 1 <= Len(mesh.vertices)
        /\ GridVertex(S, ring, S).position[2] = GridVertex(S, ring, 0).position[2]
        /\ Abs(GridVertex(S, ring, S).position[1] - GridVertex(S, ring, 0).position[1]) <= 4
        /\ Abs(GridVertex(S, ring, S).position[3] - GridVertex(S, ring, 0).position[3]) <= 4

\* C16: createSphere(radius, segments, rings) produces exactly
\* (rings+1)*(segments+1) vertices and 6*rings*segments indices; within each
\* ring the vertex at segment 0 and the vertex at segment `segments` are two
\* distinct vertices; each quad (ring, seg) emits the triangles
\* (current, next, current+1) and (current+1, next, next+1) with
\* current = ring*(segments+1)+seg and next = current+segments+1.
C16_SphereGrid ==
    MadeBy("createSphere") =>
        LET S == built.segments
            R == built.rings
        IN  /\ Len(mesh.vertices) = (R + 1) * (S + 1)
            /\ Len(mesh.indices) = 6 * R * S
            /\ SeamDuplicated(S, R)
            /\ \A ring \in 0 .. R - 1 : \A seg \in 0 .. S - 1 :
                   LET current == ring * (S + 1) + seg
                       next    == current + S + 1
                   IN  QuadIndices(S, ring, seg) =
                           << current, next, current + 1, current + 1, next, next + 1 >>

\* a sphere of 3 segments and 2 rings was generated
C16_Witness ==
    /\ MadeBy("createSphere")
    /\ built.segments = 3
    /\ built.rings = 2
    /\ Len(mesh.vertices) = 12
    /\ Len(mesh.indices) = 36
    /\ QuadIndices(3, 1, 2) = <<6, 10, 7, 7, 10, 11>>

-----------------------------------------------------------------------------
(* Properties of the 2D Renderer *)

\* the larger of the two distances between the endpoints of the call
LongAxis == Max2(Abs(call2D.to[1] - call2D.from[1]), Abs(call2D.to[2] - call2D.from[2]))

\* how far the loop of drawLine is from its last pixel
Remaining == Max2(Abs(call2D.l.x1 - call2D.l.x0), Abs(call2D.l.y1 - call2D.l.y0))

\* the pixels drawn so far start at the first endpoint and each is next to
\* the one before it
Connected ==
    /\ visited # <<>> => visited[1] = call2D.from
    /\ \A i \in 2 .. Len(visited) :
           /\ Abs(visited[i][1] - visited[i - 1][1]) <= 1
           /\ Abs(visited[i][2] - visited[i - 1][2]) <= 1
           /\ visited[i] # visited[i - 1]

\* a returned drawLine ended on the second endpoint after LongAxis + 1 pixels
Complete ==
    call2D.at = "done" =>
        /\ visited[Len(visited)] = call2D.to
        /\ Len(visited) = LongAxis + 1
        /\ (call2D.from = <<0, 0>> /\ call2D.to = <<5, 0>> => Len(visited) = 6)
        /\ (call2D.from = call2D.to => Len(visited) = 1)

\* an iteration of the loop that does not return brings the last pixel nearer
Approaches ==
    (call2D.op = "drawLine" /\ call2D.at = "loop" /\ call2D'.at = "loop")
        => (Remaining' < Remaining)

\* C17: drawLine(x0, y0, x1, y1) with integer endpoints terminates and draws
\* the Bresenham line: the pixels include both endpoints, each pixel differs
\* from the previous one by at most 1 in x and in y, and exactly
\* max(|dx|, |dy|) + 1 pixels are visited; (0,0)-(5,0) touches exactly 6
\* pixels and equal endpoints exactly one.
C17_BresenhamLine ==
    /\ [](call2D.op = "drawLine" => Connected /\ Complete)
    /\ [][Approaches]_vars
    /\ (call2D.op = "drawLine") ~> (call2D.op = "drawLine" /\ call2D.at = "done")

\* the line from (0, 0) to (5, 0) was drawn to its end
C17_Witness ==
    /\ call2D.op = "drawLine"
    /\ call2D.at = "done"
    /\ call2D.from = <<0, 0>>
    /\ call2D.to = <<5, 0>>
    /\ Len(visited) = 6

\* the triangle of the call has no area: (v1 - v0) x (v2 - v0) is 0
ZeroArea2D ==
    /\ call2D.op = "drawTriangle"
    /\ Cross2(V2Sub(call2D.v[2], call2D.v[1]), V2Sub(call2D.v[3], call2D.v[1])) = 0

\* C18: the 2D drawTriangle rejects a zero-area triangle without dividing by
\* zero: when (v1 - v0) x (v2 - v0) is 0, no division by it is executed and
\* no pixel is drawn.
C18_DegenerateRejected ==
    ZeroArea2D => /\ \A i \in 1 .. Len(divisors) : divisors[i] # 0
                  /\ visited = <<>>

\* what the code does keep for a zero-area triangle: none of its pixels
\* passes the test, whichever sign the zero divisor has
ZeroAreaDrawsNothing == ZeroArea2D => visited = <<>>

-----------------------------------------------------------------------------
(* Properties of the degenerate triangles of drawMesh *)

\* |area| < 0.0001 for an area in units of 1 / Scale^2, where 0.0001 lies
\* between 6 and 7 units
NearZero(area) == Abs(area) < 7

\* the depths setPixelDepth was called with are numbers
FiniteDepths ==
    \A i \in BufferIndices : \A j \in 1 .. Len(submitted[i]) :
        /\ submitted[i][j][1] # NaN
        /\ Abs(submitted[i][j][1]) < PosInf

\* C19: in the filled path of drawMesh a triangle with near-zero screen-space
\* area (|area| < 0.0001) is skipped before any barycentric division: no
\* division by that area is executed, and no color and no depth is written
\* for it, so no NaN or Inf depth reaches the framebuffer from it.
C19_DegenerateSkipped ==
    ~wireframe =>
        /\ \A i \in 1 .. Len(divisors) : ~NearZero(divisors[i])
        /\ \A k \in 1 .. Len(trace) :
               NearZero(CrossOf(k)) => trace[k].pixels = {} /\ trace[k].depths = {}
        /\ (pc = "scan" /\ NearZero(tri.cross))
               => drawn.pixels = {} /\ drawn.depths = {}
        /\ FiniteDepths

\* a triangle of positive area below 0.0001 passed the cull and went through
\* the pixel loops of the fill without a division and without a pixel
C19_Witness ==
    /\ pc = "done"
    /\ ~wireframe
    /\ Len(trace) = 1
    /\ trace[1].outcome = "drawn"
    /\ CrossOf(1) > 0
    /\ NearZero(CrossOf(1))
    /\ divisors = <<>>
    /\ trace[1].pixels = {}

-----------------------------------------------------------------------------
(* Properties of the angles of the Camera *)

\* a call that changed yaw or pitch left the position alone and put the
\* target one unit along the direction of the new angles
RotationSetsTarget ==
    (yaw' # yaw \/ pitch' # pitch)
        => /\ position' = position
           /\ target' = TargetFromOrientation(yaw', pitch')

\* the part of the sentence about the target holds in every step
RotationsSetTarget == [][RotationSetsTarget]_vars

\* and so does the part about yaw, which rotateYaw wraps
YawBounds == 0 - Pi <= yaw /\ yaw <= Pi

\* C20: in every reachable Camera state, including right after construction
\* with any position and target, and after any sequence of rotateYaw and
\* rotatePitch calls, yaw lies in [-pi, pi] and pitch lies in
\* [-89 degrees, +89 degrees].
C20_AngleBounds ==
    /\ 0 - Pi <= yaw
    /\ yaw <= Pi
    /\ 0 - MaxPitch <= pitch
    /\ pitch <= MaxPitch

-----------------------------------------------------------------------------
(* Properties of Color::blend *)

\* c lies between a and b, whichever is larger
Between(c, a, b) == Min2(a, b) <= c /\ c <= Max2(a, b)

\* C21: Color::blend(fg, bg) is alpha-over compositing with an opaque
\* result: the result alpha is 255 and each result channel, fg*a + bg*(1-a)
\* with a = fg.a/255, truncated, lies between the fg and the bg channel;
\* fg.a = 255 returns fg's RGB, fg.a = 0 returns bg's RGB, and
\* blend(Color(255,0,0,128), Color(0,0,0,255)) is about (127,0,0,255).
C21_AlphaOver ==
    evaluated.op = "blend" =>
        LET fg == evaluated.fg
            bg == evaluated.bg
            c  == evaluated.result
        IN  /\ c[4] = 255
            /\ \A k \in 1 .. 3 : Between(c[k], fg[k], bg[k])
            /\ (fg[4] = 255 => \A k \in 1 .. 3 : c[k] = fg[k])
            /\ (fg[4] = 0 => \A k \in 1 .. 3 : c[k] = bg[k])
            /\ (fg = Color(255, 0, 0, 128) /\ bg = Color(0, 0, 0, 255)
                   => Abs(c[1] - 127) <= 1 /\ c[2] = 0 /\ c[3] = 0)

\* what does hold: each channel is at most one below the smaller of the two
\* and never above the larger
AlmostBetween ==
    evaluated.op = "blend" =>
        \A k \in 1 .. 3 :
            /\ evaluated.result[k] >= Min2(evaluated.fg[k], evaluated.bg[k]) - 1
            /\ evaluated.result[k] <= Max2(evaluated.fg[k], evaluated.bg[k])

-----------------------------------------------------------------------------
(* Properties of Mat4 *)

\* 1 on the diagonal (offsets 0, 5, 10, 15) and 0 elsewhere
IsIdentity(M) == \A k \in 0 .. 15 : At(M, k) = (IF k % 5 = 0 THEN Scale ELSE 0)

\* C22: for every matrix M, Mat4::identity() * M == M and
\* M * Mat4::identity() == M elementwise, and a default-constructed Mat4 is
\* the identity.
C22_IdentityLaw ==
    /\ IsIdentity(Identity4)
    /\ evaluated.op = "multiply" =>
           /\ (IsIdentity(evaluated.a) => \A k \in 0 .. 15 : At(evaluated.result, k) = At(evaluated.b, k))
           /\ (IsIdentity(evaluated.b) => \A k \in 0 .. 15 : At(evaluated.result, k) = At(evaluated.a, k))

\* the full matrix was multiplied by the identity from the left
C22_Witness ==
    /\ evaluated.op = "multiply"
    /\ IsIdentity(evaluated.a)
    /\ At(evaluated.b, 0) = Scale \div 2
    /\ At(evaluated.b, 7) = 4 * Scale
    /\ evaluated.result = evaluated.b

\* element (row i, column j) of A * B written with whole products: the sum
\* over k of A[k*4+i] * B[j*4+k], in units of 1 / Scale^2
ElementSum(A, B, i, j) ==
    At(A, 0 * 4 + i) * At(B, j * 4 + 0) + At(A, 1 * 4 + i) * At(B, j * 4 + 1)
      + At(A, 2 * 4 + i) * At(B, j * 4 + 2) + At(A, 3 * 4 + i) * At(B, j * 4 + 3)

\* C23: for all matrices A, B and every Vec4 v, (A*B)*v equals A*(B*v), so
\* A*B applies B first; element (row i, column j) of the product is stored at
\* offset j*4+i and equals the sum over k of A[k*4+i] * B[j*4+k]; a direction
\* (w = 0) is unaffected by translate(t) while a point (w = 1) is moved by t.
C23_Composition ==
    /\ evaluated.op = "compose" =>
           /\ evaluated.together = evaluated.inTurn
           /\ \A i \in 0 .. 3 : \A j \in 0 .. 3 :
                  At(evaluated.product, j * 4 + i) * Scale
                      = ElementSum(evaluated.a, evaluated.b, i, j)
    /\ evaluated.op = "translate" =>
           /\ evaluated.direction = evaluated.v
           /\ evaluated.point = VAdd(evaluated.v, evaluated.t)

\* a scaling after a translation moved a point: the translation went first,
\* and the other order gives another vector
C23_Witness ==
    /\ evaluated.op = "compose"
    /\ evaluated.v[4] = Scale
    /\ evaluated.together = evaluated.inTurn
    /\ evaluated.together # MatVec(evaluated.b, MatVec(evaluated.a, evaluated.v))
    /\ evaluated.b = Translate(Vec3(Scale, 2 * Scale, 3 * Scale))
    /\ evaluated.v = Vec4(Vec3(Scale, 0, 0), Scale)
    /\ evaluated.together = << 4 * Scale, Scale, 9 * Scale, Scale >>

-----------------------------------------------------------------------------
(* Properties of drawCircle and drawFilledCircle *)

\* the pixels the call has passed to drawPixel
Drawn == { visited[i] : i \in DOMAIN visited }

\* the eight images of the offset (a, b) about the centre (cx, cy)
Images(cx, cy, a, b) ==
    { <<cx + a, cy + b>>, <<cx - a, cy + b>>, <<cx + a, cy - b>>, <<cx - a, cy - b>>,
      <<cx + b, cy + a>>, <<cx - b, cy + a>>, <<cx + b, cy - a>>, <<cx - b, cy - a>> }

\* the four points at the distance radius on the axes through the centre
AxisPoints(cx, cy, radius) ==
    { <<cx + radius, cy>>, <<cx - radius, cy>>, <<cx, cy + radius>>, <<cx, cy - radius>> }

\* every drawn pixel lies in the square of side 2 * radius + 1 about the centre
InSquare ==
    \A p \in Drawn : /\ Abs(p[1] - call2D.cx) <= call2D.radius
                     /\ Abs(p[2] - call2D.cy) <= call2D.radius

\* the drawn set contains the eight images of each of its pixels
Symmetric ==
    \A p \in Drawn :
        Images(call2D.cx, call2D.cy, p[1] - call2D.cx, p[2] - call2D.cy) \subseteq Drawn

\* the pixels drawCircle draws from the loop variables c on
RECURSIVE OutlineFrom(_, _, _)
OutlineFrom(cx, cy, c) ==
    IF c.x <= c.y
    THEN LET ps == DrawSymmetricPoints(cx, cy, c.x, c.y)
         IN  { ps[i] : i \in DOMAIN ps } \cup OutlineFrom(cx, cy, CircleAdvance(c))
    ELSE {}

\* the call in progress is one of the two circle calls
IsCircleCall == call2D.op \in {"drawCircle", "drawFilledCircle"}

\* what holds in every state of a circle call
CircleSafe ==
    IsCircleCall =>
        /\ call2D.iterations <= Max2(call2D.radius + 1, 0)
        /\ InSquare
        /\ call2D.radius < 0 => call2D.at = "done" /\ visited = <<>>
        /\ call2D.op = "drawCircle" => Symmetric
        /\ call2D.iterations >= 1 =>
               AxisPoints(call2D.cx, call2D.cy, call2D.radius) \subseteq Drawn
        /\ call2D.at = "done" /\ call2D.radius >= 0 =>
               /\ call2D.iterations >= 1
               /\ call2D.radius = 0 => Drawn = { <<call2D.cx, call2D.cy>> }
               /\ call2D.op = "drawCircle" =>
                      Drawn = OutlineFrom(call2D.cx, call2D.cy, CircleStart(call2D.radius))
               /\ call2D.op = "drawFilledCircle" =>
                      OutlineFrom(call2D.cx, call2D.cy, CircleStart(call2D.radius))
                          \subseteq Drawn

\* C24: drawCircle with radius >= 0 returns after at most radius + 1
\* iterations; the pixels it draws are closed under the 8 symmetries about
\* the centre, contain the four axis points and lie in the square of the
\* radius about the centre; drawFilledCircle draws a superset of them in
\* the same square; radius 0 draws only the centre, a negative radius nothing
C24_MidpointCircle ==
    /\ []CircleSafe
    /\ IsCircleCall ~> (IsCircleCall /\ call2D.at = "done")

\* a circle of radius 3 was drawn in 3 iterations, through the diagonal
\* pixel (cx + 2, cy + 2)
C24_Witness ==
    /\ call2D.op = "drawCircle"
    /\ call2D.at = "done"
    /\ call2D.radius = 3
    /\ call2D.iterations = 3
    /\ <<call2D.cx + 2, call2D.cy + 2>> \in Drawn
    /\ Cardinality(Drawn) = 16

-----------------------------------------------------------------------------
(* Properties of Camera::orbitAroundTarget *)

\* a step of orbitAroundTarget
IsOrbit == \E a \in Angles : OrbitAroundTarget(a, 0 - RoundDiv(a, 2))

\* the distance between the camera and its target
OrbitRadius(pos, tgt) == Length3(VSub(pos, tgt))

\* the rounding allowed on a length or an angle: 1/16
Slack == Scale \div 16

\* the call leaves target, up, yaw and pitch alone and sets viewDirty
OrbitKeepsRest ==
    IsOrbit => /\ UNCHANGED <<target, up, yaw, pitch>>
               /\ viewDirty'

\* the call keeps the distance to the target
OrbitKeepsRadius ==
    IsOrbit => Abs(OrbitRadius(position', target') - OrbitRadius(position, target)) <= Slack

\* the polar angle of the new offset lies in 0.1 .. pi - 0.1
OrbitClampsPolar ==
    IsOrbit /\ OrbitRadius(position', target') > Slack =>
        LET polar == Acos(FDiv(position'[2] - target'[2], OrbitRadius(position', target')))
        IN  /\ RoundDiv(Scale, 10) - Slack <= polar
            /\ polar <= Pi - RoundDiv(Scale, 10) + Slack

\* the parts of the sentence that hold in every step
OrbitKeepsTheRest == [][OrbitKeepsRest]_vars
OrbitClampsThePolarAngle == [][OrbitClampsPolar]_vars

\* C25: orbitAroundTarget(yaw, pitch) leaves target, up, yaw and pitch
\* unchanged, sets viewDirty, keeps |position - target| equal to its value
\* before the call, and the resulting polar angle of position - target is
\* clamped to 0.1 .. pi - 0.1.
C25_OrbitKeepsRadius ==
    [][OrbitKeepsRest /\ OrbitKeepsRadius /\ OrbitClampsPolar]_vars

-----------------------------------------------------------------------------
(* Properties of the flat shading of drawMesh *)

\* the triangle drawMesh is rasterizing
Shaded == pc \in {"scan", "line"}

\* the integer average of channel k of the three vertex colours
BaseChannel(v, k) == (v[1].color[k] + v[2].color[k] + v[3].color[k]) \div 3

\* 30% of a channel, truncated
ThirtyPercent(c) == (3 * c) \div 10

\* the lit colour of the current triangle against its vertex colours
FlatShaded ==
    LET v   == GetTriangle(mesh, triangleIndex)
        b   == Brightness(v, modelMatrix)
        lit == tri.litColor
    IN  /\ RoundDiv(3 * Scale, 10) <= b
        /\ b <= Scale
        /\ \A k \in 1 .. 3 :
               /\ BaseChannel(v, k) \in 0 .. 255
               /\ lit[k] = TruncDiv(BaseChannel(v, k) * b, Scale)
               /\ lit[k] <= BaseChannel(v, k)
               /\ ThirtyPercent(BaseChannel(v, k)) <= lit[k]
        /\ lit[4] = 255
        /\ \A i \in drawn.pixels : pixels[i] = lit

\* C26: drawMesh shades flat: every pixel of a triangle gets one colour, the
\* average (c0 + c1 + c2) / 3 of the vertex colours per channel, taken
\* without 8-bit wrap-around, times a brightness in [0.3, 1]; each lit
\* channel is at most the base channel and at least 30% of it, truncated,
\* and alpha is 255
C26_FlatShading == Shaded => FlatShaded

\* the triangle with two white corners and a red one has written a pixel:
\* its green average is 170, and the pixel is darker than that
C26_Witness ==
    /\ pc = "scan"
    /\ GetTriangle(mesh, triangleIndex) = Mixed
    /\ drawn.pixels # {}
    /\ BaseChannel(Mixed, 2) = 170
    /\ \E i \in drawn.pixels : pixels[i][2] < 170 /\ pixels[i][2] >= 51 /\ pixels[i][1] > pixels[i][2]

-----------------------------------------------------------------------------
(* Properties of the startup of main *)

\* the program ended at startup: main returned 1, nothing is held and no
\* frame was shown
FatalStartup ==
    /\ app.pc = "exited"
    /\ app.exitCode = 1
    /\ app.held = {}
    /\ app.frames = 0
    /\ ~rgl.alive

\* the steps of the two window constructors
WindowFailures ==
    { WindowGLSteps[i] : i \in DOMAIN WindowGLSteps } \cup { WindowSteps[i] : i \in DOMAIN WindowSteps }

\* the part of the sentence about the window layer holds
WindowFailuresAreFatal == app.failed \cap WindowFailures # {} => FatalStartup

\* C27: a failure of SDL init, of the creation of the window, renderer,
\* texture, GL context or GLEW, of a shader compilation or of a program
\* link is fatal at startup: the constructor throws, main returns 1, what
\* the earlier steps acquired is released, and no frame is ever rendered.
C27_FatalStartup == app.failed # {} => FatalStartup

-----------------------------------------------------------------------------
(* Properties of the mesh cache of RendererGL *)

\* the addresses uploaded so far, one per upload
Uploaded == { rgl.uploads[i].mesh : i \in DOMAIN rgl.uploads }

\* the GL names the uploads were given
UploadedNames ==
    UNION { { rgl.uploads[i].gpuMesh.vao, rgl.uploads[i].gpuMesh.vbo,
              rgl.uploads[i].gpuMesh.ibo } : i \in DOMAIN rgl.uploads }

\* how often name n was passed to glDelete*
TimesDeleted(n) == Cardinality({ i \in DOMAIN rgl.deleted : rgl.deleted[i] = n })

\* no Mesh is uploaded twice, the cache holds what the first upload stored,
\* and a draw uses the cached buffers and index count
CachedOnce ==
    /\ \A i, j \in DOMAIN rgl.uploads :
           rgl.uploads[i].mesh = rgl.uploads[j].mesh => i = j
    /\ Cardinality(UploadedNames) = 3 * Len(rgl.uploads)
    /\ DOMAIN rgl.uploadedMeshes = Uploaded
    /\ \A i \in DOMAIN rgl.uploads :
           rgl.uploadedMeshes[rgl.uploads[i].mesh] = rgl.uploads[i].gpuMesh
    /\ rgl.last.op # "none" =>
           /\ rgl.last.mesh \in Uploaded
           /\ rgl.last.vao = rgl.uploadedMeshes[rgl.last.mesh].vao
           /\ rgl.last.indexCount = rgl.uploadedMeshes[rgl.last.mesh].indexCount

\* while the renderer lives nothing is deleted; once it is destroyed every
\* uploaded name was deleted exactly once
DeletedOnce ==
    /\ rgl.alive => rgl.deleted = <<>> /\ rgl.live = UploadedNames
    /\ app.pc = "exited" =>
           /\ rgl.live = {}
           /\ \A n \in UploadedNames : TimesDeleted(n) = 1
           /\ Len(rgl.deleted) = 3 * Len(rgl.uploads)

\* a call uploads exactly when its Mesh was not used before, and leaves
\* the entries of the other meshes as they are
UploadOnFirstUse ==
    rgl.alive /\ rgl'.alive =>
        /\ \A m \in DOMAIN rgl.uploadedMeshes :
               /\ m \in DOMAIN rgl'.uploadedMeshes
               /\ rgl'.uploadedMeshes[m] = rgl.uploadedMeshes[m]
        /\ rgl'.last # rgl.last \/ rgl'.calls # rgl.calls =>
               Len(rgl'.uploads) = Len(rgl.uploads)
                   + (IF rgl'.last.op # "none" /\ rgl'.calls # rgl.calls
                         /\ app' = app /\ rgl'.last.mesh \notin Uploaded
                      THEN 1 ELSE 0)

\* C30: over any sequence of drawMesh and renderShadowMesh calls a Mesh, by
\* address, is uploaded exactly once, on its first use by either call; later
\* calls use the cached buffers and the index count of that upload; no
\* entry is removed or refreshed before the renderer is destroyed, and then
\* every uploaded buffer is deleted exactly once
C30_MeshCache ==
    /\ [](CachedOnce /\ DeletedOnce)
    /\ [][UploadOnFirstUse]_vars

\* Mesh 1 was drawn into the shadow map, grew from 3 to 6 indices and was
\* drawn again with the 3 indices of its only upload; then the renderer was
\* destroyed and the three names deleted
C30_Witness ==
    /\ app.pc = "exited"
    /\ app.exitCode = 0
    /\ app.sizes[1] = 6
    /\ rgl.calls = 3
    /\ rgl.last.op = "drawMesh"
    /\ rgl.last.mesh = 1
    /\ rgl.last.indexCount = 3
    /\ Len(rgl.uploads) = 1
    /\ rgl.deleted = <<1, 2, 3>>

-----------------------------------------------------------------------------
(* Properties of the writes to the depth buffer *)

\* the pixels whose stored depth the step changes
DepthChanged == { i \in BufferIndices : depthBuffer'[i] # depthBuffer[i] }

\* the last setPixelDepth submitted for pixel i
LastSubmitted(i) == submitted'[i][Len(submitted'[i])]

\* a depth changes only in a clearDepth or clearAll, which reset every
\* depth, or in a setPixelDepth, called directly or by a filled drawMesh,
\* whose depth passed the test
OnlyDepthWrites ==
    DepthChanged # {} =>
        \/ /\ NothingDrawn
           /\ depthBuffer' = [i \in BufferIndices |-> PosInf]
        \/ /\ NothingDrawn \/ (pc = "scan" /\ ~wireframe)
           /\ \A i \in DepthChanged :
                  /\ Len(submitted'[i]) = Len(submitted[i]) + 1
                  /\ depthBuffer'[i] = LastSubmitted(i)[1]
                  /\ depthBuffer'[i] < depthBuffer[i]
                  /\ pixels'[i] = LastSubmitted(i)[2]

\* the pixels the step passes to drawPixel
NewlyVisited == { visited'[k] : k \in (Len(visited) + 1) .. Len(visited') }

\* a 2D primitive keeps every depth and colours each pixel inside the
\* framebuffer, whatever depth is stored there
Untested2D ==
    visited' # visited =>
        /\ UNCHANGED depthBuffer
        /\ \A p \in NewlyVisited :
               ~OutOfBounds(p[1], p[2]) => pixels'[PixelIndex(p[1], p[2])] = call2D.color

\* so does each pixel of an edge of a wireframe drawMesh
UntestedWireframe ==
    pc = "line" =>
        /\ wireframe
        /\ UNCHANGED depthBuffer
        /\ ~OutOfBounds(line.x0, line.y0) =>
               pixels'[PixelIndex(line.x0, line.y0)] = tri.litColor

\* and so do setPixel and clear
UntestedCalls ==
    /\ SetPixel(0, 0, RED) => UNCHANGED depthBuffer /\ pixels'[PixelIndex(0, 0)] = RED
    /\ Clear(BLACK) => UNCHANGED depthBuffer /\ \A i \in BufferIndices : pixels'[i] = BLACK

\* C28: setPixel, clear, the 2D primitives and drawMesh in wireframe mode
\* leave every stored depth unchanged and write their colour without a
\* depth test; only setPixelDepth (and with it a filled drawMesh),
\* clearDepth and clearAll change depth values
C28_DepthWriters ==
    [][OnlyDepthWrites /\ Untested2D /\ UntestedWireframe /\ UntestedCalls]_vars

\* a white line was drawn over the pixel (0, 0), where setPixelDepth had
\* stored the depth 1 with a green pixel; the depth is still 1
C28_Witness ==
    /\ call2D.op = "drawLine"
    /\ call2D.at = "done"
    /\ submitted[PixelIndex(0, 0)] = << <<1, GREEN>> >>
    /\ depthBuffer[PixelIndex(0, 0)] = 1
    /\ pixels[PixelIndex(0, 0)] = WHITE

-----------------------------------------------------------------------------
(* Properties of the writes of a filled drawMesh *)

\* the scan of drawTriangle3D stands at a pixel: the body of its loops runs
AtPixel == pc = "scan" /\ scan.y <= scan.maxY /\ scan.x <= scan.maxX

\* the bounding box lies in the framebuffer, and so does the scanned pixel
ScanInBounds ==
    pc = "scan" =>
        /\ 0 <= scan.minX /\ scan.maxX <= Width - 1
        /\ 0 <= scan.minY /\ scan.maxY <= Height - 1
        /\ AtPixel => ~OutOfBounds(scan.x, scan.y)

\* the pixels whose colour the step changes
ColorChanged == { i \in BufferIndices : pixels'[i] # pixels[i] }

\* a step of the scan changes the framebuffer at the scanned pixel only,
\* through a setPixelDepth whose depth passes the test, and then colour
\* and depth are the submitted ones, both
WrittenTogether ==
    pc = "scan" =>
        /\ UNCHANGED colorOnly
        /\ \A i \in BufferIndices :
               IF submitted'[i] # submitted[i]
               THEN /\ AtPixel
                    /\ i = PixelIndex(scan.x, scan.y)
                    /\ Len(submitted'[i]) = Len(submitted[i]) + 1
                    /\ IF LastSubmitted(i)[1] < depthBuffer[i]
                       THEN /\ depthBuffer'[i] = LastSubmitted(i)[1]
                            /\ pixels'[i] = LastSubmitted(i)[2]
                       ELSE /\ depthBuffer'[i] = depthBuffer[i]
                            /\ pixels'[i] = pixels[i]
               ELSE /\ depthBuffer'[i] = depthBuffer[i]
                    /\ pixels'[i] = pixels[i]

\* the screen triangle s has no point in the framebuffer: it lies to one
\* side of it
EntirelyOutside(s) ==
    \/ Max3(s[1][1], s[2][1], s[3][1]) < 0
    \/ Min3(s[1][1], s[2][1], s[3][1]) >= Width * Scale
    \/ Max3(s[1][2], s[2][2], s[3][2]) < 0
    \/ Min3(s[1][2], s[2][2], s[3][2]) >= Height * Scale

\* a filled triangle outside the framebuffer has written nothing
OutsideWritesNothing ==
    ~wireframe =>
        \A k \in DOMAIN trace :
            trace[k].outcome = "drawn" /\ EntirelyOutside(trace[k].tri.screenV) =>
                trace[k].pixels = {} /\ trace[k].depths = {}

\* C29: a filled drawMesh changes the framebuffer only through
\* setPixelDepth and only at 0 <= x < width, 0 <= y < height, the bounding
\* box being clamped, also for triangles partly or fully off-screen; colour
\* and depth of a pixel are written together, and a triangle entirely
\* outside the framebuffer writes nothing
C29_FilledWrites ==
    /\ [](ScanInBounds /\ OutsideWritesNothing)
    /\ [][WrittenTogether]_vars

\* a filled triangle that lies outside the framebuffer was scanned and is
\* recorded with no pixel, before or after one that wrote pixels
C29_Witness ==
    /\ ~wireframe
    /\ Len(trace) = 2
    /\ \E k \in DOMAIN trace :
           /\ trace[k].outcome = "drawn"
           /\ EntirelyOutside(trace[k].tri.screenV)
           /\ trace[k].pixels = {}
    /\ \E k \in DOMAIN trace :
           /\ trace[k].outcome = "drawn"
           /\ ~EntirelyOutside(trace[k].tri.screenV)
           /\ trace[k].pixels # {}
           /\ trace[k].pixels = trace[k].depths

====
